---- MODULE Spec2Model ----
(***************************************************************************)
(* A model of the train-listing pipeline: the paginated fetcher with its   *)
(* retry loop and one-shot auth-link refresh (fetcher.py), the row filter  *)
(* and the export download (fetcher.py), and the top-level run with its    *)
(* auth validation (main.py).                                              *)
(***************************************************************************)
EXTENDS Integers, Sequences, FiniteSets, TLC

(***************************************************************************)
(* Bounds of the model.                                                    *)
(***************************************************************************)
MaxRetries == 2
MaxTotal == 3
MaxPageSize == 2
MaxFilterRows == 3
MaxRangeRows == 3
MaxCapRetries == 2
MaxLogins == 2
MaxSegments == 2
MaxDepth == 2
MaxCookies == 3
MaxPreferred == 2
MaxSplitRows == 3

NoExc == "None"
StartPages == {0, 1}

VARIABLES
    \* ---- fetch_all_real_train_info: arguments
    retries, page_size, start_page_number, flowEnabled, hasAuthToken,
    \* ---- fetch_all_real_train_info: locals
    pc, used, attempt, last_exc, total, total_pages, i, all_rows,
    returnedRows, raisedExc,
    \* ---- what the listing server and the auth endpoints saw
    numRequests, pageRequests, reqLog, served, lastStatus, seen401,
    reauthStarts, transferRequests, reauthPage, lastObserved, sleeps, wellFormed,
    firstDeclared,
    \* ---- whether every answer to the request in progress was a 401
    only401

fetchArgs == <<retries, page_size, start_page_number, flowEnabled, hasAuthToken>>
fetchLocals == <<pc, used, attempt, last_exc, total, total_pages, i, all_rows,
                 returnedRows, raisedExc>>
fetchHistory == <<numRequests, pageRequests, reqLog, served, lastStatus, seen401,
                  reauthStarts, transferRequests, reauthPage, lastObserved, sleeps,
                  wellFormed, firstDeclared, only401>>
fetchVars == <<fetchArgs, fetchLocals, fetchHistory>>

VARIABLES
    \* ---- download_export_loaded_box_xlsx: arguments
    real_train_codes, dlRetries,
    \* ---- download_export_loaded_box_xlsx: locals and outcome
    dlPc, dlAttempt, dlLastExc, dlRaised,
    \* ---- the file at out_path, the export endpoint, the sleeps taken
    outFile, outFileAtCall, exportRequests, exportPayload, dlSleeps,
    \* ---- download: what each export request was answered, and how the
    \* ---- write of the body went
    exportLog

dlVars == <<real_train_codes, dlRetries, dlPc, dlAttempt, dlLastExc, dlRaised,
            outFile, outFileAtCall, exportRequests, exportPayload, dlSleeps,
            exportLog>>

VARIABLES
    \* ---- filter_codes_for_day: arguments, position, results of two calls
    rows, day, filterPc, codes, codesAgain,
    \* ---- filter_train_codes_by_day: the range, the rows it selected, what
    \* ---- each row's departure parsed to
    departureDateStart, departureDateEnd, selected, parsed

rangeVars == <<departureDateStart, departureDateEnd, selected, parsed>>

filterVars == <<rows, day, filterPc, codes, codesAgain, rangeVars>>

VARIABLES
    \* ---- main: the process environment and CONFIG
    envToken, envCookie, loginEnabled, listHeaders, exportHeaders,
    \* ---- main: position, error, values handed from stage to stage
    mainPc, mainExc, missingNamed, mainRows, mainCodes,
    \* ---- main: the stages run, the requests sent, the files written
    stageLog, mainListRequests, mainExportRequests, exportWritten, splitWritten,
    \* ---- the auth headers the listing and the export requests carried
    sentListAuth, sentExportAuth

mainVars == <<envToken, envCookie, loginEnabled, listHeaders, exportHeaders,
              mainPc, mainExc, missingNamed, mainRows, mainCodes, stageLog,
              mainListRequests, mainExportRequests, exportWritten, splitWritten,
              sentListAuth, sentExportAuth>>

VARIABLES
    \* ---- login_and_refresh_auth: login_api configuration and CAPTCHA_VALUE
    lgEnabled, capEnabled, capRetries, responseType, savePathSet, tokenPathSet,
    captchaValueEnv,
    \* ---- one call: position, captcha attempt, image, recognized text, error,
    \* ---- returned mapping, environment at the call
    lgPc, capAttempt, image_bytes, captcha_value, lgExc, lgErrNames, updates,
    envAtCall,
    \* ---- one call: the challenge requests and their answers, the sleeps, the
    \* ---- login requests and the captcha text they carried
    capLog, capSleeps, loginRequests, loginCaptchaSent,
    \* ---- one call: what the recognition read, what the login endpoint
    \* ---- answered
    ocrText, loginResponse,
    \* ---- across calls: the clock, the calls made, the file at save_path and
    \* ---- when it was written relative to recognition, the challenge held
    \* ---- from the call before and its time
    now, lgCalls, savedImage, challengeCount, fetchedAt, callAt, cachedAt,
    cachedImage

loginConfig == <<lgEnabled, capEnabled, capRetries, responseType, savePathSet,
                 tokenPathSet, captchaValueEnv>>
loginCall == <<lgPc, capAttempt, image_bytes, captcha_value, lgExc, lgErrNames,
               updates, envAtCall, capLog, capSleeps, loginRequests,
               loginCaptchaSent, ocrText, loginResponse>>
loginAcross == <<now, lgCalls, savedImage, challengeCount, fetchedAt, callAt,
                 cachedAt, cachedImage>>
loginVars == <<loginConfig, loginCall, loginAcross>>

VARIABLES
    \* ---- _sync_auth_token_from_cookie: the segments the cookie header was
    \* ---- written from, the header, the token variable at the call and now
    cookieSegments, syncHeader, tokenAtCall, tokenEnv, syncPc

syncVars == <<cookieSegments, syncHeader, tokenAtCall, tokenEnv, syncPc>>

VARIABLES
    \* ---- normalize_auth_headers: the segments the cookie header was written
    \* ---- from, the headers at the call and now, AUTH_TOKEN, the value
    \* ---- returned
    nzSegments, nzAtCall, nzHeaders, nzEnv, nzToken, nzPc

normVars == <<nzSegments, nzAtCall, nzHeaders, nzEnv, nzToken, nzPc>>

VARIABLES
    \* ---- deep_inject_env: the object passed, as it was at the call and as
    \* ---- it is now, the environment, the value returned
    injAtCall, injData, injEnviron, injOut, injPc

injVars == <<injAtCall, injData, injEnviron, injOut, injPc>>

VARIABLES
    \* ---- build_cookie_header: cookie_pairs, preferred_keys, the string
    \* ---- returned
    ckPairs, ckPreferred, ckHeader, ckPc

cookieVars == <<ckPairs, ckPreferred, ckHeader, ckPc>>

VARIABLES
    \* ---- split_excel_by_booker: the input file (there or not, its columns,
    \* ---- its rows), consigner_value, actual_booker_exclude
    spInputExists, spColumns, spRows, spConsigner, spExclude,
    \* ---- the frame after the filters, the groups still to write, outputs,
    \* ---- the files of output_dir, every write made, position and error
    spDf, spPending, spOutputs, spFiles, spWrites, spPc, spExc

splitArgs == <<spInputExists, spColumns, spRows, spConsigner, spExclude>>

splitVars == <<splitArgs, spDf, spPending, spOutputs, spFiles, spWrites, spPc, spExc>>

VARIABLES
    \* ---- export_by_direction: grouped, the files of output_dir, the files
    \* ---- as they were when the running call began, the items of
    \* ---- grouped still to handle, outputs, the calls completed, the files
    \* ---- as the first call left them, position
    exGrouped, exFiles, exAtCall, exPending, exOutputs, exRuns, exFirst, exPc

exportVars == <<exGrouped, exFiles, exAtCall, exPending, exOutputs, exRuns, exFirst, exPc>>

VARIABLES
    \* ---- fetch_all_real_train_info and its caller's objects: the objects
    \* ---- by reference, the caller's objects as they were at the call, the
    \* ---- environment then and now
    frHeap, frAtCall, frEnvAtCall, frEnviron,
    \* ---- the references held by headers, base_payload and auth_link_flow,
    \* ---- retries, the attempt, the page index, the page count, the
    \* ---- one-shot flag, position
    frHeaders, frBase, frFlow, frRetries, frAttempt, frPage, frPages, frUsed, frPc,
    \* ---- the headers and the json body of every listing request
    frSent

frameLocals == <<frHeaders, frBase, frFlow>>

frameVars == <<frHeap, frAtCall, frEnvAtCall, frEnviron, frameLocals, frRetries,
               frAttempt, frPage, frPages, frUsed, frPc, frSent>>

utilVars == <<syncVars, normVars, injVars, cookieVars, splitVars, exportVars,
              frameVars>>

progVars == <<fetchVars, dlVars, filterVars, mainVars, loginVars>>

vars == <<progVars, utilVars>>

(***************************************************************************)
(* Helpers.                                                                *)
(***************************************************************************)
Min(a, b) == IF a <= b THEN a ELSE b
Max(a, b) == IF a >= b THEN a ELSE b

RECURSIVE Pow(_, _)
Pow(b, e) == IF e = 0 THEN 1 ELSE b * Pow(b, e - 1)

RECURSIVE Flatten(_)
Flatten(ss) == IF ss = <<>> THEN <<>> ELSE Head(ss) \o Flatten(Tail(ss))

\* math.ceil(a / b) for a >= 0, b >= 1
CeilDiv(a, b) == (a + b - 1) \div b

(***************************************************************************)
(* The listing server.  A response is a status; an ok response carries a   *)
(* JSON body with an optional total and a list of rows.  Rows are opaque:  *)
(* a page of n rows is 1..n in ascending or in descending order, so the    *)
(* same row occurs on several pages.                                       *)
(***************************************************************************)
RowsOfLen(n) == {[k \in 1..n |-> k], [k \in 1..n |-> n + 1 - k]}

JsonBodies(P) ==
    LET rowSeqs == UNION {RowsOfLen(n) : n \in 0..(P + 1)}
    IN  {[hasTotal |-> FALSE, total |-> 0, rows |-> r] : r \in rowSeqs}
        \cup {[hasTotal |-> TRUE, total |-> t, rows |-> r] :
                 t \in 0..MaxTotal, r \in rowSeqs}

FailStatuses == {"401", "500", "timeout"}

ExcOf(status) ==
    CASE status = "401" -> "HTTPError401"
      [] status = "500" -> "HTTPError500"
      [] OTHER -> "Timeout"

(***************************************************************************)
(* _run_auth_link_flow: the outcomes of one run of the flow, the number of *)
(* transfer requests it issues and whether it raises.                      *)
(***************************************************************************)
FlowOutcomes ==
    IF ~hasAuthToken THEN {"no_token"}
    ELSE {"transfer_failed", "no_value", "portal_failed", "me_failed", "done"}

\* session.post(transfer_url, ...): every run that finds a token posts once
FlowTransferRequests(o) == IF o = "no_token" THEN 0 ELSE 1

FlowRaises(o) == o \in {"transfer_failed", "portal_failed", "me_failed"}

(***************************************************************************)
(* fetch_all_real_train_info                                               *)
(***************************************************************************)
\* int(first.get(total_field, 0) or 0)
TotalOf(body) == IF body.hasTotal THEN body.total ELSE 0

\* Mutant of TotalPages: the page count rounded down.
TotalPagesFloor(t, P) == t \div P

\* int(math.ceil(total / page_size))
TotalPages(t, P) == CeilDiv(t, P)

\* first_payload[page_number_field] = start_page_number; later start_page_number + i
PageNumber(k) == start_page_number + k

\* Mutant of HasAttemptLeft: one attempt more than retries.
HasAttemptLeftOnceMore == attempt <= retries + 1

\* for attempt in range(1, retries + 1)
HasAttemptLeft == attempt <= retries

\* Mutant of FirstPageComplete: a first page that holds exactly total rows is
\* not taken as complete.
FirstPageCompleteStrict(t, rs) == t < Len(rs)

\* if total <= len(all_rows): return all_rows
FirstPageComplete(t, rs) == t <= Len(rs)

\* Mutant of Extend: rows already accumulated are dropped.
ExtendDedup(acc, rs) ==
    acc \o SelectSeq(rs, LAMBDA r : \A k \in 1..Len(acc) : acc[k] # r)

\* all_rows.extend(rows)
Extend(acc, rs) == acc \o rs

\* Mutant of ReauthTriggered: the enabled flag is not consulted.
ReauthTriggeredIgnoringEnabled(status) == status = "401" /\ ~used

\* Mutant of ReauthTriggered: the one-shot flag is not consulted.
ReauthTriggeredIgnoringFlag(status) == status = "401" /\ flowEnabled

\* resp.status_code == 401 and not used and auth_link_flow.get("enabled", False)
ReauthTriggered(status) == status = "401" /\ ~used /\ flowEnabled

InLoop == pc \in {"first", "next"}

\* session.post(url, json=data, ...): what the listing server records: the number
\* of requests, the number of requests for the page being fetched, and the pages
\* in the order they were first asked for
Request(status) ==
    LET samePage == reqLog # <<>> /\ reqLog[Len(reqLog)] = PageNumber(i)
    IN
    /\ numRequests' = numRequests + 1
    /\ pageRequests' = IF samePage THEN pageRequests + 1 ELSE 1
    /\ reqLog' = IF samePage THEN reqLog ELSE Append(reqLog, PageNumber(i))
    /\ lastStatus' = status
    /\ seen401' = (seen401 \/ status = "401")
    /\ only401' = ((samePage => only401) /\ status = "401")

FetchInit ==
    /\ retries \in 0..MaxRetries
    /\ page_size \in 1..MaxPageSize
    /\ start_page_number \in StartPages
    /\ flowEnabled \in BOOLEAN
    /\ hasAuthToken \in BOOLEAN
    /\ (~flowEnabled => hasAuthToken)
    /\ pc = "first"
    /\ used = FALSE
    /\ attempt = 1
    /\ last_exc = NoExc
    /\ total = 0
    /\ total_pages = 0
    /\ i = 0
    /\ all_rows = <<>>
    /\ returnedRows = <<>>
    /\ raisedExc = NoExc
    /\ numRequests = 0
    /\ pageRequests = 0
    /\ reqLog = <<>>
    /\ served = <<>>
    /\ lastStatus = "none"
    /\ seen401 = FALSE
    /\ reauthStarts = 0
    /\ transferRequests = 0
    /\ reauthPage = -1
    /\ lastObserved = NoExc
    /\ sleeps = <<>>
    /\ wellFormed = TRUE
    /\ firstDeclared = -1
    /\ only401 = TRUE

\* The fetcher is not running.
FetchIdle ==
    /\ retries = 0
    /\ page_size = 1
    /\ start_page_number = 0
    /\ flowEnabled = FALSE
    /\ hasAuthToken = TRUE
    /\ pc = "idle"
    /\ used = FALSE
    /\ attempt = 1
    /\ last_exc = NoExc
    /\ total = 0
    /\ total_pages = 0
    /\ i = 0
    /\ all_rows = <<>>
    /\ returnedRows = <<>>
    /\ raisedExc = NoExc
    /\ numRequests = 0
    /\ pageRequests = 0
    /\ reqLog = <<>>
    /\ served = <<>>
    /\ lastStatus = "none"
    /\ seen401 = FALSE
    /\ reauthStarts = 0
    /\ transferRequests = 0
    /\ reauthPage = -1
    /\ lastObserved = NoExc
    /\ sleeps = <<>>
    /\ wellFormed = TRUE
    /\ firstDeclared = -1
    /\ only401 = TRUE

\* Lines 176-184: a 401 while the one-shot flag is unset runs the auth-link flow.
\* The flag is set after the flow returns; a flow that raises lands in the
\* except branch of the attempt, with the flag still unset.
Post401Reauth ==
    /\ InLoop /\ HasAttemptLeft
    /\ ReauthTriggered("401")
    /\ Request("401")
    /\ \E o \in FlowOutcomes :
          /\ reauthStarts' = reauthStarts + 1
          /\ transferRequests' = transferRequests + FlowTransferRequests(o)
          /\ IF FlowRaises(o)
                THEN /\ last_exc' = "AuthLinkError"
                     /\ lastObserved' = "AuthLinkError"
                     /\ sleeps' = Append(sleeps, Pow(2, attempt))
                     /\ used' = used
                ELSE /\ used' = TRUE
                     /\ UNCHANGED <<last_exc, lastObserved, sleeps>>
    /\ reauthPage' = PageNumber(i)
    /\ attempt' = attempt + 1
    /\ UNCHANGED <<fetchArgs, pc, total, total_pages, i, all_rows, returnedRows,
                   raisedExc, served, wellFormed, firstDeclared>>

\* Lines 185-191: raise_for_status or the transport raises; the except branch
\* records the error and sleeps 2 ** attempt.
PostFail ==
    /\ InLoop /\ HasAttemptLeft
    /\ \E status \in FailStatuses :
          /\ ~ReauthTriggered(status)
          /\ Request(status)
          /\ last_exc' = ExcOf(status)
          /\ lastObserved' = ExcOf(status)
    /\ sleeps' = Append(sleeps, Pow(2, attempt))
    /\ reauthPage' = -1
    /\ attempt' = attempt + 1
    /\ UNCHANGED <<fetchArgs, pc, used, total, total_pages, i, all_rows,
                   returnedRows, raisedExc, served, reauthStarts, transferRequests,
                   wellFormed, firstDeclared>>

\* Mutant of RaiseLastExc: the rows fetched so far are returned instead.
ReturnPartialRows ==
    /\ InLoop /\ ~HasAttemptLeft
    /\ pc' = "returned"
    /\ returnedRows' = all_rows
    /\ UNCHANGED <<fetchArgs, used, attempt, last_exc, total, total_pages, i,
                   all_rows, raisedExc, fetchHistory>>

\* Line 192: the loop is over without a return.  raise None is a TypeError.
RaiseLastExc ==
    /\ InLoop /\ ~HasAttemptLeft
    /\ pc' = "raised"
    /\ raisedExc' = IF last_exc = NoExc THEN "TypeError" ELSE last_exc
    /\ UNCHANGED <<fetchArgs, used, attempt, last_exc, total, total_pages, i,
                   all_rows, returnedRows, fetchHistory>>

\* Lines 199-214: the first page succeeds.
FetchFirstOk ==
    /\ pc = "first" /\ HasAttemptLeft
    /\ Request("ok")
    /\ \E body \in JsonBodies(page_size) :
          LET t == TotalOf(body)
              tp == TotalPages(t, page_size)
          IN  /\ total' = t
              /\ all_rows' = body.rows
              /\ served' = <<body.rows>>
              /\ wellFormed' = (body.hasTotal
                                /\ Len(body.rows) = Min(page_size, body.total))
              /\ firstDeclared' = IF body.hasTotal THEN body.total ELSE -1
              /\ IF FirstPageComplete(t, body.rows)
                    THEN /\ pc' = "returned"
                         /\ returnedRows' = body.rows
                         /\ UNCHANGED <<total_pages, i, attempt, sleeps,
                                        last_exc, lastObserved>>
                    ELSE /\ total_pages' = tp
                         /\ IF 1 < tp
                               THEN /\ pc' = "next"
                                    /\ i' = 1
                                    /\ attempt' = 1
                                    /\ last_exc' = NoExc
                                    /\ lastObserved' = NoExc
                                    /\ sleeps' = <<>>
                                    /\ returnedRows' = returnedRows
                               ELSE /\ pc' = "returned"
                                    /\ returnedRows' = body.rows
                                    /\ UNCHANGED <<i, attempt, last_exc,
                                                   lastObserved, sleeps>>
    /\ reauthPage' = -1
    /\ UNCHANGED <<fetchArgs, used, raisedExc, reauthStarts, transferRequests>>

\* Lines 216-235: a later page succeeds; after the last one all_rows is returned.
FetchNextOk ==
    /\ pc = "next" /\ HasAttemptLeft
    /\ Request("ok")
    /\ \E body \in JsonBodies(page_size) :
          /\ all_rows' = Extend(all_rows, body.rows)
          /\ served' = Append(served, body.rows)
          /\ wellFormed' = (wellFormed
                            /\ Len(body.rows) = Min(page_size, total - Len(all_rows)))
          /\ IF i + 1 < total_pages
                THEN /\ pc' = "next"
                     /\ i' = i + 1
                     /\ attempt' = 1
                     /\ last_exc' = NoExc
                     /\ lastObserved' = NoExc
                     /\ sleeps' = <<>>
                     /\ returnedRows' = returnedRows
                ELSE /\ pc' = "returned"
                     /\ returnedRows' = Extend(all_rows, body.rows)
                     /\ UNCHANGED <<i, attempt, last_exc, lastObserved, sleeps>>
    /\ reauthPage' = -1
    /\ UNCHANGED <<fetchArgs, used, total, total_pages, raisedExc, reauthStarts,
                   transferRequests, firstDeclared>>


(***************************************************************************)
(* download_export_loaded_box_xlsx                                         *)
(***************************************************************************)
DlCodeLists == {<<>>, <<"A">>, <<"B">>, <<"A", "B">>, <<"B", "A">>}
ExportBodies == {"xlsxA", "xlsxB"}

\* ",".join(real_train_codes)
RECURSIVE JoinCodes(_)
JoinCodes(cs) ==
    IF cs = <<>> THEN <<>>
    ELSE IF Len(cs) = 1 THEN cs
    ELSE <<Head(cs), ",">> \o JoinCodes(Tail(cs))

\* Mutant of NoCodes: the guard never fires.
NoCodesNever(cs) == FALSE

\* if not real_train_codes
NoCodes(cs) == cs = <<>>

\* Mutant of WriteFile: the body is appended to what the file held.
AppendFile(old, body) == <<old, body>>

\* with open(out_path, "wb") as f: f.write(resp.content)
WriteFile(old, body) == body

DlHasAttemptLeft == dlAttempt <= dlRetries

DlInit ==
    /\ real_train_codes \in DlCodeLists
    /\ dlRetries \in 0..MaxRetries
    /\ outFile \in {"absent", "old"}
    /\ outFileAtCall = outFile
    /\ dlPc = "call"
    /\ dlAttempt = 1
    /\ dlLastExc = NoExc
    /\ dlRaised = NoExc
    /\ exportRequests = 0
    /\ exportPayload = <<>>
    /\ dlSleeps = <<>>
    /\ exportLog = <<>>

\* The download is not running.
DlIdle ==
    /\ real_train_codes = <<>>
    /\ dlRetries = 0
    /\ outFile = "absent"
    /\ outFileAtCall = "absent"
    /\ dlPc = "idle"
    /\ dlAttempt = 1
    /\ dlLastExc = NoExc
    /\ dlRaised = NoExc
    /\ exportRequests = 0
    /\ exportPayload = <<>>
    /\ dlSleeps = <<>>
    /\ exportLog = <<>>

\* Lines 304-305: an empty code list raises ValueError.
DlEmptyGuard ==
    /\ dlPc = "call"
    /\ NoCodes(real_train_codes)
    /\ dlPc' = "raised"
    /\ dlRaised' = "ValueError"
    /\ UNCHANGED <<real_train_codes, dlRetries, dlAttempt, dlLastExc, outFile,
                   outFileAtCall, exportRequests, exportPayload, dlSleeps, exportLog>>

\* Lines 308-315: session, headers, payload, last_exc = None.
DlPrepare ==
    /\ dlPc = "call"
    /\ ~NoCodes(real_train_codes)
    /\ dlPc' = "loop"
    /\ exportPayload' = JoinCodes(real_train_codes)
    /\ dlLastExc' = NoExc
    /\ dlAttempt' = 1
    /\ UNCHANGED <<real_train_codes, dlRetries, dlRaised, outFile, outFileAtCall,
                   exportRequests, dlSleeps, exportLog>>

\* Lines 319-329: the export answers ok; the parent directory is made and the
\* body written.  open(out_path, "wb") truncates the file, so a failed write
\* leaves a partial file; either failure lands in the except branch.
DlPostOk ==
    /\ dlPc = "loop" /\ DlHasAttemptLeft
    /\ exportRequests' = exportRequests + 1
    /\ \E body \in ExportBodies, io \in {"written", "open_failed", "write_failed"} :
          /\ exportLog' = Append(exportLog, [status |-> "ok", body |-> body, io |-> io])
          /\ IF io = "written"
             THEN /\ outFile' = WriteFile(outFile, body)
                  /\ dlPc' = "returned"
                  /\ UNCHANGED <<dlAttempt, dlLastExc, dlSleeps>>
             ELSE /\ outFile' = IF io = "write_failed" THEN "partial" ELSE outFile
                  /\ dlLastExc' = "OSError"
                  /\ dlSleeps' = Append(dlSleeps, Pow(2, dlAttempt))
                  /\ dlAttempt' = dlAttempt + 1
                  /\ dlPc' = dlPc
    /\ UNCHANGED <<real_train_codes, dlRetries, dlRaised, outFileAtCall,
                   exportPayload>>

\* Lines 319-320, 330-334: the transport or raise_for_status raises.
DlPostFail ==
    /\ dlPc = "loop" /\ DlHasAttemptLeft
    /\ exportRequests' = exportRequests + 1
    /\ \E status \in FailStatuses :
          /\ dlLastExc' = ExcOf(status)
          /\ exportLog' = Append(exportLog, [status |-> status, body |-> "", io |-> "none"])
    /\ dlSleeps' = Append(dlSleeps, Pow(2, dlAttempt))
    /\ dlAttempt' = dlAttempt + 1
    /\ UNCHANGED <<real_train_codes, dlRetries, dlPc, dlRaised, outFile,
                   outFileAtCall, exportPayload>>

\* Lines 336-338: the loop is over; the last error, or RuntimeError if none.
DlRaise ==
    /\ dlPc = "loop" /\ ~DlHasAttemptLeft
    /\ dlPc' = "raised"
    /\ dlRaised' = IF dlLastExc # NoExc THEN dlLastExc ELSE "RuntimeError"
    /\ UNCHANGED <<real_train_codes, dlRetries, dlAttempt, dlLastExc, outFile,
                   outFileAtCall, exportRequests, exportPayload, dlSleeps, exportLog>>

(***************************************************************************)
(* filter_codes_for_day.  A string is a sequence of characters; a field of *)
(* a row is present with a string value, or missing/None.                  *)
(***************************************************************************)
\* len(dep) >= 10 and dep[:10] == day
DayLen == 10

Str(v) == [present |-> TRUE, val |-> v]
Missing == [present |-> FALSE, val |-> <<>>]

Day0601 == <<"2", "0", "2", "4", "-", "0", "6", "-", "0", "1">>
Day0602 == <<"2", "0", "2", "4", "-", "0", "6", "-", "0", "2">>
Noon == <<" ", "1", "2", ":", "0", "0", ":", "0", "0">>
CodeT1 == <<"T", "1">>
CodeT2 == <<"T", "2">>
CodeT3 == <<"T", "3">>

\* The rows the listing may hold: the target day with and without a time and
\* with surrounding blanks, another day, a short and a missing departure;
\* codes that repeat, differ only in surrounding blanks, are empty, blank or
\* missing.
FilterRows ==
    { [departure_date |-> Str(Day0601), real_train_code |-> Str(CodeT1)],
      [departure_date |-> Str(Day0601 \o Noon),
       real_train_code |-> Str(<<" ">> \o CodeT1 \o <<" ">>)],
      [departure_date |-> Str(<<" ">> \o Day0601 \o <<" ">>),
       real_train_code |-> Str(CodeT2)],
      [departure_date |-> Str(Day0602), real_train_code |-> Str(CodeT2)],
      [departure_date |-> Str(Day0601), real_train_code |-> Str(<<>>)],
      [departure_date |-> Str(Day0601), real_train_code |-> Str(<<" ", " ">>)],
      [departure_date |-> Str(Day0601), real_train_code |-> Missing],
      [departure_date |-> Str(SubSeq(Day0601, 1, 7)), real_train_code |-> Str(CodeT1)],
      [departure_date |-> Missing, real_train_code |-> Str(CodeT2)],
      [departure_date |-> Str(Day0601 \o Noon), real_train_code |-> Str(CodeT2)],
      [departure_date |-> Str(Day0602), real_train_code |-> Str(CodeT3)] }

RECURSIVE SeqsUpTo(_, _)
SeqsUpTo(S, n) ==
    IF n = 0 THEN {<<>>}
    ELSE LET shorter == SeqsUpTo(S, n - 1)
         IN  shorter \cup {Append(q, x) : q \in shorter, x \in S}

IsSpace(c) == c \in {" ", "\t", "\n"}

RECURSIVE LStrip(_)
LStrip(str) ==
    IF str # <<>> /\ IsSpace(Head(str)) THEN LStrip(Tail(str)) ELSE str

RECURSIVE RStrip(_)
RStrip(str) ==
    IF str # <<>> /\ IsSpace(str[Len(str)])
    THEN RStrip(SubSeq(str, 1, Len(str) - 1)) ELSE str

\* str.strip()
Strip(str) == RStrip(LStrip(str))

\* (r.get(field) or "")
OrEmpty(field) == IF field.present THEN field.val ELSE <<>>

\* dep[:n]
Prefix(str, n) == SubSeq(str, 1, Min(n, Len(str)))

\* Mutant of RowSelected: the whole departure must equal day.
RowSelectedWholeString(r, d) == Strip(OrEmpty(r.departure_date)) = d

\* Lines 258-259: the row's departure, stripped, starts with day.
RowSelected(r, d) ==
    LET dep == Strip(OrEmpty(r.departure_date))
    IN  Len(dep) >= DayLen /\ Prefix(dep, DayLen) = d

\* Line 260
RowCode(r) == Strip(OrEmpty(r.real_train_code))

\* Lines 254-262: the codes of the selected rows, empty ones left out.
RECURSIVE CollectCodes(_, _)
CollectCodes(rs, d) ==
    IF rs = <<>> THEN <<>>
    ELSE LET r == Head(rs)
             rest == CollectCodes(Tail(rs), d)
         IN  IF RowSelected(r, d) /\ RowCode(r) # <<>>
             THEN <<RowCode(r)>> \o rest ELSE rest

\* Mutant of DedupKeepOrder: every code is kept.
DedupNothing(cs, seen) == cs

\* Lines 265-270: keep a code the first time it is seen.
RECURSIVE DedupKeepOrder(_, _)
DedupKeepOrder(cs, seen) ==
    IF cs = <<>> THEN <<>>
    ELSE IF Head(cs) \in seen THEN DedupKeepOrder(Tail(cs), seen)
    ELSE <<Head(cs)>> \o DedupKeepOrder(Tail(cs), seen \cup {Head(cs)})

filter_codes_for_day(rs, d) == DedupKeepOrder(CollectCodes(rs, d), {})

\* No range is given and no departure has been parsed.
RangeUnused ==
    /\ departureDateStart = Missing
    /\ departureDateEnd = Missing
    /\ selected = {}
    /\ parsed = <<>>

FilterInit ==
    /\ rows \in SeqsUpTo(FilterRows, MaxFilterRows)
    /\ day \in {Day0601, Day0602}
    /\ filterPc = "call"
    /\ codes = <<>>
    /\ codesAgain = <<>>
    /\ RangeUnused

\* The filter is not running.
FilterIdle ==
    /\ rows = <<>>
    /\ day = Day0601
    /\ filterPc = "idle"
    /\ codes = <<>>
    /\ codesAgain = <<>>
    /\ RangeUnused

\* codes = filter_codes_for_day(rows, day)
FilterCall ==
    /\ filterPc = "call"
    /\ codes' = filter_codes_for_day(rows, day)
    /\ filterPc' = "once"
    /\ UNCHANGED <<rows, day, codesAgain, rangeVars>>

\* The filter applied again to the same rows.
FilterCallAgain ==
    /\ filterPc = "once"
    /\ codesAgain' = filter_codes_for_day(rows, day)
    /\ filterPc' = "twice"
    /\ UNCHANGED <<rows, day, codes, rangeVars>>

(***************************************************************************)
(* filter_train_codes_by_day and _parse_departure_datetime: the filter     *)
(* with an optional departure range.  A parsed timestamp is the tuple      *)
(* <<year, month, day, hour, minute, second>>.                             *)
(***************************************************************************)
Day0603 == <<"2", "0", "2", "4", "-", "0", "6", "-", "0", "3">>
Time0000 == <<" ", "0", "0", ":", "0", "0", ":", "0", "0">>
Time0800 == <<" ", "0", "8", ":", "0", "0", ":", "0", "0">>
Time2359 == <<" ", "2", "3", ":", "5", "9", ":", "5", "9">>
IsoTime0800 == <<"T", "0", "8", ":", "0", "0", ":", "0", "0">>

Digits == <<"0", "1", "2", "3", "4", "5", "6", "7", "8", "9">>
IsDigit(c) == \E n \in 1..Len(Digits) : Digits[n] = c
DigitVal(c) == (CHOOSE n \in 1..Len(Digits) : Digits[n] = c) - 1

RECURSIVE Num(_)
Num(str) ==
    IF str = <<>> THEN 0
    ELSE Num(SubSeq(str, 1, Len(str) - 1)) * Len(Digits) + DigitVal(str[Len(str)])

AllDigits(str, positions) == \A k \in positions : IsDigit(str[k])

\* YYYY-MM-DD
IsDate(str) ==
    /\ Len(str) = Len(Day0601)
    /\ AllDigits(str, {1, 2, 3, 4, 6, 7, 9, 10})
    /\ str[5] = "-" /\ str[8] = "-"

\* " HH:MM:SS", the separating blank included
IsTime(str) ==
    /\ Len(str) = Len(Time0000)
    /\ str[1] = " "
    /\ AllDigits(str, {2, 3, 5, 6, 8, 9})
    /\ str[4] = ":" /\ str[7] = ":"

NoDatetime == [ok |-> FALSE, val |-> <<>>]

DateFields(str) == <<Num(SubSeq(str, 1, 4)), Num(SubSeq(str, 6, 7)), Num(SubSeq(str, 9, 10))>>
TimeFields(str) == <<Num(SubSeq(str, 2, 3)), Num(SubSeq(str, 5, 6)), Num(SubSeq(str, 8, 9))>>

\* Mutant of parse_departure_datetime: only the format with a time parses.
ParseDatetimeOnly(str) ==
    IF Len(str) = Len(Day0601) + Len(Time0000)
       /\ IsDate(SubSeq(str, 1, 10)) /\ IsTime(SubSeq(str, 11, Len(str)))
    THEN [ok |-> TRUE,
          val |-> DateFields(SubSeq(str, 1, 10)) \o TimeFields(SubSeq(str, 11, Len(str)))]
    ELSE NoDatetime

\* _parse_departure_datetime: YYYY-MM-DD HH:MM:SS or YYYY-MM-DD (midnight),
\* None for anything else.
parse_departure_datetime(str) ==
    IF IsDate(str) THEN [ok |-> TRUE, val |-> DateFields(str) \o <<0, 0, 0>>]
    ELSE IF Len(str) = Len(Day0601) + Len(Time0000)
            /\ IsDate(SubSeq(str, 1, 10)) /\ IsTime(SubSeq(str, 11, Len(str)))
    THEN [ok |-> TRUE,
          val |-> DateFields(SubSeq(str, 1, 10)) \o TimeFields(SubSeq(str, 11, Len(str)))]
    ELSE NoDatetime

\* a <= b on timestamps
RECURSIVE DatetimeLeq(_, _)
DatetimeLeq(a, b) ==
    IF a = <<>> THEN TRUE
    ELSE IF Head(a) # Head(b) THEN Head(a) < Head(b)
    ELSE DatetimeLeq(Tail(a), Tail(b))

\* The range applies: both ends are given and parse.
RangeGiven(start, end) ==
    /\ parse_departure_datetime(OrEmpty(start)).ok
    /\ parse_departure_datetime(OrEmpty(end)).ok

\* Mutant of InRange: the end of the range is exclusive.
InRangeEndExclusive(t, start, end) ==
    /\ DatetimeLeq(parse_departure_datetime(OrEmpty(start)).val, t)
    /\ DatetimeLeq(t, parse_departure_datetime(OrEmpty(end)).val)
    /\ t # parse_departure_datetime(OrEmpty(end)).val

\* start <= t <= end
InRange(t, start, end) ==
    /\ DatetimeLeq(parse_departure_datetime(OrEmpty(start)).val, t)
    /\ DatetimeLeq(t, parse_departure_datetime(OrEmpty(end)).val)

\* The row is selected: by the range when it applies and the row's departure
\* parses, by the day prefix otherwise.
RangeRowSelected(r, d, start, end) ==
    LET t == parse_departure_datetime(Strip(OrEmpty(r.departure_date)))
    IN  IF RangeGiven(start, end) /\ t.ok THEN InRange(t.val, start, end)
        ELSE RowSelected(r, d)

RECURSIVE CollectRangeCodes(_, _, _, _)
CollectRangeCodes(rs, d, start, end) ==
    IF rs = <<>> THEN <<>>
    ELSE LET r == Head(rs)
             rest == CollectRangeCodes(Tail(rs), d, start, end)
         IN  IF RangeRowSelected(r, d, start, end) /\ RowCode(r) # <<>>
             THEN <<RowCode(r)>> \o rest ELSE rest

filter_train_codes_by_day(rs, d, start, end) ==
    DedupKeepOrder(CollectRangeCodes(rs, d, start, end), {})

\* The rows the listing may hold: three days with a time, a date alone, a
\* departure in another format with and without the day prefix, a missing
\* departure, a departure with surrounding blanks.
RangeRows ==
    { [departure_date |-> Str(Day0601 \o Time0800), real_train_code |-> Str(CodeT1)],
      [departure_date |-> Str(Day0602 \o Time0800), real_train_code |-> Str(CodeT2)],
      [departure_date |-> Str(Day0603 \o Time0800), real_train_code |-> Str(CodeT1)],
      [departure_date |-> Str(Day0601), real_train_code |-> Str(CodeT2)],
      [departure_date |-> Str(Day0601 \o IsoTime0800), real_train_code |-> Str(CodeT3)],
      [departure_date |-> Str(<<"0", "6", "/", "0", "1">>), real_train_code |-> Str(CodeT3)],
      [departure_date |-> Missing, real_train_code |-> Str(CodeT2)],
      [departure_date |-> Str(<<" ">> \o Day0602 \o Time0800 \o <<" ">>),
       real_train_code |-> Str(CodeT3)] }

RangeStarts == {Missing, Str(Day0601 \o Time0000), Str(<<"b", "a", "d">>)}
RangeEnds == {Missing, Str(Day0602 \o Time2359), Str(Day0602 \o Time0800)}

RangeInit ==
    /\ rows \in SeqsUpTo(RangeRows, MaxRangeRows)
    /\ day \in {Day0601, Day0603}
    /\ departureDateStart \in RangeStarts
    /\ departureDateEnd \in RangeEnds
    /\ filterPc = "call"
    /\ codes = <<>>
    /\ codesAgain = <<>>
    /\ selected = {}
    /\ parsed = <<>>

\* codes = filter_train_codes_by_day(rows, day, departureDateStart, departureDateEnd)
RangeCall ==
    /\ filterPc = "call"
    /\ codes' = filter_train_codes_by_day(rows, day, departureDateStart, departureDateEnd)
    /\ selected' = {k \in 1..Len(rows) :
                       RangeRowSelected(rows[k], day, departureDateStart, departureDateEnd)}
    /\ parsed' = [k \in 1..Len(rows) |->
                     parse_departure_datetime(Strip(OrEmpty(rows[k].departure_date)))]
    /\ filterPc' = "once"
    /\ UNCHANGED <<rows, day, codesAgain, departureDateStart, departureDateEnd>>

(***************************************************************************)
(* main.  An environment variable is unset or set to a value.  A cookie    *)
(* header "k1=v1; k2=v2" is the sequence of its pairs.                     *)
(***************************************************************************)
Unset(v) == [set |-> FALSE, val |-> v]
SetTo(v) == [set |-> TRUE, val |-> v]

NoneValue == "<None>"
PreferredKeys == <<"AUTH_TOKEN", "BGWL-EXEC-PROD", "HWWAFSESID", "HWWAFSESTIME">>

\* What login.login() may hand back: no cookie, session cookies without and
\* with an AUTH_TOKEN cookie, an AUTH_TOKEN cookie with an empty value, a
\* cookie whose value is None.
CookieJars ==
    { <<>>,
      << <<"HWWAFSESID", "w1">> >>,
      << <<"JSESSIONID", "s1">>, <<"AUTH_TOKEN", "tokC">> >>,
      << <<"AUTH_TOKEN", "">>, <<"JSESSIONID", "s1">> >>,
      << <<"JSESSIONID", NoneValue>> >> }

\* The values of COOKIE the environment may start with.
CookieHeaders ==
    { <<>>,
      << <<"JSESSIONID", "s0">> >>,
      << <<"AUTH_TOKEN", "tokE">>, <<"JSESSIONID", "s0">> >> }

HeaderSlots == {"absent", "placeholder", "literal"}
HeaderSets == [auth_token : HeaderSlots, cookie : HeaderSlots]

MainRowLists ==
    { <<>>,
      << [departure_date |-> Str(Day0601), real_train_code |-> Str(CodeT1)] >>,
      << [departure_date |-> Str(Day0602), real_train_code |-> Str(CodeT2)] >>,
      << [departure_date |-> Str(Day0601 \o Noon), real_train_code |-> Str(CodeT2)],
         [departure_date |-> Str(Day0601), real_train_code |-> Str(CodeT1)] >> }

\* run.target_day
TargetDay == Day0601

PairValue(pairs, key) ==
    LET ks == {k \in 1..Len(pairs) : pairs[k][1] = key}
    IN  IF ks = {} THEN NoneValue
        ELSE pairs[CHOOSE k \in ks : \A m \in ks : m <= k][2]

Truthy(v) == v # NoneValue /\ v # ""

\* Mutant of build_cookie_header: the preferred keys are not put first.
BuildCookieHeaderUnordered(cookie_pairs, preferred_keys) ==
    SelectSeq(cookie_pairs, LAMBDA pr : pr[2] # NoneValue)

\* build_cookie_header: the preferred keys with a non-empty value first, then
\* every other pair whose value is not None.
build_cookie_header(cookie_pairs, preferred_keys) ==
    LET first == SelectSeq(preferred_keys,
                           LAMBDA k : Truthy(PairValue(cookie_pairs, k)))
        usedKeys == {first[k] : k \in 1..Len(first)}
        firstPairs == [k \in 1..Len(first) |->
                          <<first[k], PairValue(cookie_pairs, first[k])>>]
        rest == SelectSeq(cookie_pairs,
                          LAMBDA pr : pr[1] \notin usedKeys /\ pr[2] # NoneValue)
    IN  firstPairs \o rest

\* Mutant of EnvFalsy: only an unset variable counts as missing.
EnvFalsyUnsetOnly(v) == ~v.set

\* not os.getenv(env_key)
EnvFalsy(v) == ~v.set \/ Len(v.val) = 0

\* os.getenv(cookie_env_key, "")
CookieOrEmpty(v) == IF v.set THEN v.val ELSE <<>>

\* _sync_auth_token_from_cookie: the token variable after the call.
SyncAuthTokenFromCookie(cookie_header, tokenVar) ==
    IF cookie_header = <<>> \/ ~EnvFalsy(tokenVar) THEN tokenVar
    ELSE LET hits == {k \in 1..Len(cookie_header) :
                         cookie_header[k][1] = "AUTH_TOKEN"
                         /\ cookie_header[k][2] # ""}
         IN  IF hits = {} THEN tokenVar
             ELSE SetTo(cookie_header[CHOOSE k \in hits : \A m \in hits : k <= m][2])

\* The variable a header slot's ${VAR} placeholder names.
SlotVar(key) == IF key = "auth_token" THEN envToken ELSE envCookie
SlotVarName(key) == IF key = "auth_token" THEN "AUTH_TOKEN" ELSE "COOKIE"

\* _missing_env_vars: the header keys whose placeholder variable is unset or empty.
MissingEnvVars(headers) ==
    {key \in {"auth_token", "cookie"} :
        headers[key] = "placeholder" /\ EnvFalsy(SlotVar(key))}

\* _validate_auth_headers raises: every auth key present is missing.
ValidateRaises(headers) ==
    LET auth_keys == {key \in {"auth_token", "cookie"} : headers[key] # "absent"}
        empty_auth == auth_keys \cap MissingEnvVars(headers)
    IN  /\ auth_keys # {}
        /\ empty_auth # {}
        /\ Cardinality(empty_auth) = Cardinality(auth_keys)

\* The variables the error message names.
MissingVarNames(headers) == {SlotVarName(key) : key \in MissingEnvVars(headers)}

\* No request has carried headers yet.
NotSent == [auth_token |-> "unsent", cookie |-> "unsent"]

\* deep_inject_env on one header value: os.getenv(env_key, data) replaces a
\* placeholder by the variable's value, empty or not, and leaves it as it is
\* when the variable is unset; any other value is kept.
InjectEnvValue(slot, v) ==
    IF slot = "placeholder"
       THEN IF v.set THEN (IF Len(v.val) = 0 THEN "empty" ELSE "value")
                     ELSE "placeholder"
       ELSE slot

deep_inject_env(headers) ==
    [key \in {"auth_token", "cookie"} |-> InjectEnvValue(headers[key], SlotVar(key))]

MainInit ==
    /\ envToken \in {Unset(""), SetTo(""), SetTo("tokE")}
    /\ envCookie \in {Unset(<<>>)} \cup {SetTo(h) : h \in CookieHeaders}
    /\ loginEnabled \in BOOLEAN
    /\ listHeaders \in HeaderSets
    /\ exportHeaders \in HeaderSets
    /\ mainPc = "login"
    /\ mainExc = NoExc
    /\ missingNamed = {}
    /\ mainRows = <<>>
    /\ mainCodes = <<>>
    /\ stageLog = <<>>
    /\ mainListRequests = 0
    /\ mainExportRequests = 0
    /\ exportWritten = FALSE
    /\ splitWritten = FALSE
    /\ sentListAuth = NotSent
    /\ sentExportAuth = NotSent

\* The fetcher or the downloader is called on its own, outside main, with
\* headers and an environment of the caller's choosing.
CallInit ==
    /\ envToken \in {Unset(""), SetTo(""), SetTo("tokE")}
    /\ envCookie \in {Unset(<<>>)} \cup {SetTo(h) : h \in CookieHeaders}
    /\ loginEnabled = FALSE
    /\ listHeaders \in HeaderSets
    /\ exportHeaders \in HeaderSets
    /\ mainPc \in {"fetch", "download"}
    /\ mainExc = NoExc
    /\ missingNamed = {}
    /\ mainRows = <<>>
    /\ mainCodes \in {<<>>, <<CodeT1>>}
    /\ stageLog = <<>>
    /\ mainListRequests = 0
    /\ mainExportRequests = 0
    /\ exportWritten = FALSE
    /\ splitWritten = FALSE
    /\ sentListAuth = NotSent
    /\ sentExportAuth = NotSent

\* main is not running.
MainIdleButEnv ==
    /\ loginEnabled = FALSE
    /\ listHeaders = [auth_token |-> "absent", cookie |-> "absent"]
    /\ exportHeaders = [auth_token |-> "absent", cookie |-> "absent"]
    /\ mainPc = "idle"
    /\ mainExc = NoExc
    /\ missingNamed = {}
    /\ mainRows = <<>>
    /\ mainCodes = <<>>
    /\ stageLog = <<>>
    /\ mainListRequests = 0
    /\ mainExportRequests = 0
    /\ exportWritten = FALSE
    /\ splitWritten = FALSE
    /\ sentListAuth = NotSent
    /\ sentExportAuth = NotSent

MainIdle ==
    /\ envToken = Unset("")
    /\ envCookie = Unset(<<>>)
    /\ MainIdleButEnv

mainConfig == <<loginEnabled, listHeaders, exportHeaders>>

\* Everything of main but the environment.
mainButEnv == <<mainConfig, mainPc, mainExc, missingNamed, mainRows, mainCodes,
                stageLog, mainListRequests, mainExportRequests, exportWritten,
                splitWritten, sentListAuth, sentExportAuth>>

\* Lines 202-212: login is enabled; login.login() raises, returns nothing, or
\* returns cookies, which become COOKIE and, if no token is set, AUTH_TOKEN.
MainLogin ==
    /\ mainPc = "login" /\ loginEnabled
    /\ stageLog' = Append(stageLog, "login")
    /\ \/ /\ mainPc' = "raised"
          /\ mainExc' = "LoginError"
          /\ UNCHANGED <<envToken, envCookie>>
       \/ \E cookies \in CookieJars :
             IF cookies = <<>>
                THEN /\ mainPc' = "raised"
                     /\ mainExc' = "RuntimeError"
                     /\ UNCHANGED <<envToken, envCookie>>
                ELSE LET cookie_header == build_cookie_header(cookies, PreferredKeys)
                     IN  /\ envCookie' = SetTo(cookie_header)
                         /\ envToken' = SyncAuthTokenFromCookie(cookie_header, envToken)
                         /\ mainPc' = "validate"
                         /\ mainExc' = mainExc
    /\ UNCHANGED <<mainConfig, missingNamed, mainRows, mainCodes, mainListRequests,
                   mainExportRequests, exportWritten, splitWritten,
                   sentListAuth, sentExportAuth>>

\* Lines 213-215: login is disabled; the token is taken from COOKIE if none is set.
MainSyncOnly ==
    /\ mainPc = "login" /\ ~loginEnabled
    /\ stageLog' = Append(stageLog, "sync")
    /\ envToken' = SyncAuthTokenFromCookie(CookieOrEmpty(envCookie), envToken)
    /\ mainPc' = "validate"
    /\ UNCHANGED <<mainConfig, envCookie, mainExc, missingNamed, mainRows, mainCodes,
                   mainListRequests, mainExportRequests, exportWritten, splitWritten,
                   sentListAuth, sentExportAuth>>

\* Lines 217-218: list_api headers, then export_api headers.
MainValidate ==
    /\ mainPc = "validate"
    /\ stageLog' = Append(stageLog, "validate")
    /\ IF ValidateRaises(listHeaders)
          THEN /\ mainPc' = "raised"
               /\ mainExc' = "ConfigError"
               /\ missingNamed' = MissingVarNames(listHeaders)
          ELSE IF ValidateRaises(exportHeaders)
          THEN /\ mainPc' = "raised"
               /\ mainExc' = "ConfigError"
               /\ missingNamed' = MissingVarNames(exportHeaders)
          ELSE /\ mainPc' = "fetch"
               /\ UNCHANGED <<mainExc, missingNamed>>
    /\ UNCHANGED <<mainConfig, envToken, envCookie, mainRows, mainCodes,
                   mainListRequests, mainExportRequests, exportWritten, splitWritten,
                   sentListAuth, sentExportAuth>>

\* main.py 228-241, fetcher.py 59-64 and 195: fetch_all_real_train_info
\* injects the environment into the headers and sends listing requests with
\* them (retries is 5: at least one), then returns the rows or raises.
MainFetch ==
    /\ mainPc = "fetch"
    /\ stageLog' = Append(stageLog, "fetch")
    /\ sentListAuth' = deep_inject_env(listHeaders)
    /\ \E n \in 1..2 : mainListRequests' = mainListRequests + n
    /\ \/ /\ mainPc' = "raised"
          /\ mainExc' = "FetchError"
          /\ mainRows' = mainRows
       \/ /\ mainPc' = "filter"
          /\ mainRows' \in MainRowLists
          /\ mainExc' = mainExc
    /\ UNCHANGED <<mainConfig, envToken, envCookie, missingNamed, mainCodes,
                   mainExportRequests, exportWritten, splitWritten, sentExportAuth>>

\* Mutant of MainFilter: the run goes on to the split, not to the download.
MainFilterThenSplit ==
    /\ mainPc = "filter"
    /\ stageLog' = Append(stageLog, "filter")
    /\ mainCodes' = filter_codes_for_day(mainRows, TargetDay)
    /\ mainPc' = "split"
    /\ UNCHANGED <<mainConfig, envToken, envCookie, mainExc, missingNamed, mainRows,
                   mainListRequests, mainExportRequests, exportWritten, splitWritten,
                   sentListAuth, sentExportAuth>>

\* Lines 252-255: codes = filter_codes_for_day(rows, target_day)
MainFilter ==
    /\ mainPc = "filter"
    /\ stageLog' = Append(stageLog, "filter")
    /\ mainCodes' = filter_codes_for_day(mainRows, TargetDay)
    /\ mainPc' = "download"
    /\ UNCHANGED <<mainConfig, envToken, envCookie, mainExc, missingNamed, mainRows,
                   mainListRequests, mainExportRequests, exportWritten, splitWritten,
                   sentListAuth, sentExportAuth>>

\* main.py 258-273, fetcher.py 304-334: download_export_loaded_box_xlsx raises
\* at once on no codes; otherwise it injects the environment into the headers,
\* sends export requests with them and writes the file or raises.
MainDownload ==
    /\ mainPc = "download"
    /\ stageLog' = Append(stageLog, "download")
    /\ IF NoCodes(mainCodes)
          THEN /\ mainPc' = "raised"
               /\ mainExc' = "ValueError"
               /\ UNCHANGED <<mainExportRequests, exportWritten, sentExportAuth>>
          ELSE /\ sentExportAuth' = deep_inject_env(exportHeaders)
               /\ \E n \in 1..2 : mainExportRequests' = mainExportRequests + n
               /\ \/ /\ mainPc' = "raised"
                     /\ mainExc' = "DownloadError"
                     /\ exportWritten' = exportWritten
                  \/ /\ mainPc' = "split"
                     /\ exportWritten' = TRUE
                     /\ mainExc' = mainExc
    /\ UNCHANGED <<mainConfig, envToken, envCookie, missingNamed, mainRows,
                   mainCodes, mainListRequests, splitWritten, sentListAuth>>

\* Lines 277-291: the downloaded file is split, or the splitter raises.
MainSplit ==
    /\ mainPc = "split"
    /\ stageLog' = Append(stageLog, "split")
    /\ \/ /\ mainPc' = "raised"
          /\ mainExc' = "SplitError"
          /\ splitWritten' = splitWritten
       \/ /\ mainPc' = "done"
          /\ splitWritten' \in BOOLEAN
          /\ mainExc' = mainExc
    /\ UNCHANGED <<mainConfig, envToken, envCookie, missingNamed, mainRows,
                   mainCodes, mainListRequests, mainExportRequests, exportWritten,
                   sentListAuth, sentExportAuth>>

(***************************************************************************)
(* login.py: login_and_refresh_auth and _request_captcha.  A JSON value is *)
(* a string, null or an object; a challenge image is the number of the     *)
(* challenge request that fetched it, 0 standing for no image.             *)
(***************************************************************************)
JStr(v) == [kind |-> "str", val |-> v, items |-> <<>>]
JNull == [kind |-> "null", val |-> "", items |-> <<>>]
JObj(key, value) == [kind |-> "dict", val |-> "", items |-> <<key, value>>]

\* token_json_path of the configuration
TokenJsonPath == <<"data", "token">>

\* What the login endpoint may answer with status 200: a token, an empty
\* token, a null token, no data, no data key.
LoginBodies ==
    { JObj("data", JObj("token", JStr("tokL"))),
      JObj("data", JObj("token", JStr(""))),
      JObj("data", JObj("token", JNull)),
      JObj("data", JNull),
      JObj("code", JStr("E401")) }

SessionCookies == {<<>>, << <<"JSESSIONID", "s9">> >>}

\* _extract_json_path: walk the keys; None once the value is not an object or
\* lacks the key (dict.get).
RECURSIVE extract_json_path(_, _)
extract_json_path(data, path) ==
    IF path = <<>> THEN data
    ELSE IF data.kind # "dict" THEN JNull
    ELSE IF data.items[1] # Head(path) THEN JNull
    ELSE extract_json_path(data.items[2], Tail(path))

\* Mutant of TokenTruthy: an empty token counts.
TokenNotNone(token) == token.kind # "null"

\* if token:
TokenTruthy(token) == token.kind = "dict" \/ (token.kind = "str" /\ token.val # "")

\* os.getenv(value_env_key, "")
GetenvOrEmpty(v) == IF v.set THEN v.val ELSE ""

NoResponse == [status |-> "none", body |-> JNull, cookies |-> <<>>]

NoUpdates == [token |-> Unset(""), cookie |-> Unset(<<>>)]

CaptchaStatuses == {"ok", "409", "500", "timeout"}

\* The per-call variables at the start of a call.
LgCallStart ==
    /\ lgPc = "call"
    /\ capAttempt = 0
    /\ image_bytes = 0
    /\ captcha_value = ""
    /\ lgExc = NoExc
    /\ lgErrNames = {}
    /\ updates = NoUpdates
    /\ envAtCall = <<envToken, envCookie>>
    /\ capLog = <<>>
    /\ capSleeps = <<>>
    /\ loginRequests = 0
    /\ loginCaptchaSent = ""
    /\ ocrText = "none"
    /\ loginResponse = NoResponse

LoginInit ==
    /\ lgEnabled \in BOOLEAN
    /\ capEnabled \in BOOLEAN
    /\ capRetries \in 0..MaxCapRetries
    /\ responseType \in {"binary", "base64_json"}
    /\ savePathSet \in BOOLEAN
    /\ tokenPathSet \in BOOLEAN
    /\ captchaValueEnv \in {Unset(""), SetTo("9999")}
    /\ envToken = SetTo("tokE")
    /\ envCookie = SetTo(<< <<"JSESSIONID", "s0">> >>)
    /\ LgCallStart
    /\ now = 0
    /\ lgCalls = 1
    /\ savedImage = 0
    /\ challengeCount = 0
    /\ fetchedAt = -1
    /\ callAt = 0
    /\ cachedAt = -1
    /\ cachedImage = 0

\* login is not running.
LoginIdle ==
    /\ lgEnabled = FALSE
    /\ capEnabled = FALSE
    /\ capRetries = 0
    /\ responseType = "binary"
    /\ savePathSet = FALSE
    /\ tokenPathSet = FALSE
    /\ captchaValueEnv = Unset("")
    /\ lgPc = "idle"
    /\ capAttempt = 0
    /\ image_bytes = 0
    /\ captcha_value = ""
    /\ lgExc = NoExc
    /\ lgErrNames = {}
    /\ updates = NoUpdates
    /\ envAtCall = <<Unset(""), Unset(<<>>)>>
    /\ capLog = <<>>
    /\ capSleeps = <<>>
    /\ loginRequests = 0
    /\ loginCaptchaSent = ""
    /\ ocrText = "none"
    /\ loginResponse = NoResponse
    /\ now = 0
    /\ lgCalls = 0
    /\ savedImage = 0
    /\ challengeCount = 0
    /\ fetchedAt = -1
    /\ callAt = 0
    /\ cachedAt = -1
    /\ cachedImage = 0

env == <<envToken, envCookie>>

\* Lines 172-175: login_api is not enabled.
LgDisabled ==
    /\ lgPc = "call" /\ ~lgEnabled
    /\ lgPc' = "returned"
    /\ updates' = NoUpdates
    /\ UNCHANGED <<loginConfig, loginAcross, env, capAttempt, image_bytes,
                   captcha_value, lgExc, lgErrNames, envAtCall, capLog, capSleeps,
                   loginRequests, loginCaptchaSent, ocrText, loginResponse>>

\* Lines 177-186: the captcha is enabled; _request_captcha is entered.
LgStartCaptcha ==
    /\ lgPc = "call" /\ lgEnabled /\ capEnabled
    /\ lgPc' = "captcha"
    /\ capAttempt' = 0
    /\ UNCHANGED <<loginConfig, loginAcross, env, image_bytes, captcha_value, lgExc,
                   lgErrNames, updates, envAtCall, capLog, capSleeps, loginRequests,
                   loginCaptchaSent, ocrText, loginResponse>>

\* Lines 198-205: the captcha is disabled; the text is CAPTCHA_VALUE or the
\* call fails.
LgCaptchaOff ==
    /\ lgPc = "call" /\ lgEnabled /\ ~capEnabled
    /\ captcha_value' = GetenvOrEmpty(captchaValueEnv)
    /\ IF GetenvOrEmpty(captchaValueEnv) = ""
          THEN /\ lgPc' = "raised"
               /\ lgExc' = "ValueError"
               /\ lgErrNames' = {"value_env_key"}
          ELSE /\ lgPc' = "login"
               /\ UNCHANGED <<lgExc, lgErrNames>>
    /\ UNCHANGED <<loginConfig, loginAcross, env, capAttempt, image_bytes, updates,
                   envAtCall, capLog, capSleeps, loginRequests, loginCaptchaSent,
                   ocrText, loginResponse>>

\* Mutant of CapMayRetry: one retry too many.
CapMayRetryOnceMore == capAttempt <= capRetries

\* if attempt < retries
CapMayRetry == capAttempt < capRetries

\* Lines 102-145, one pass of the loop: the challenge request is sent.  A
\* transport error propagates; 409 and any other HTTP error sleep retry_sleep
\* and go round again while attempt < retries, and are raised otherwise; a
\* good answer leaves the loop.
CapRequest ==
    /\ lgPc = "captcha"
    /\ challengeCount' = challengeCount + 1
    /\ \E status \in CaptchaStatuses :
          /\ capLog' = Append(capLog, status)
          /\ CASE status = "ok" ->
                    /\ lgPc' = "decode"
                    /\ fetchedAt' = now
                    /\ UNCHANGED <<capAttempt, capSleeps, lgExc>>
               [] status = "timeout" ->
                    /\ lgPc' = "raised"
                    /\ lgExc' = "Timeout"
                    /\ UNCHANGED <<capAttempt, capSleeps, fetchedAt>>
               [] OTHER ->
                    IF CapMayRetry
                       THEN /\ capSleeps' = Append(capSleeps, "retry_sleep")
                            /\ capAttempt' = capAttempt + 1
                            /\ UNCHANGED <<lgPc, lgExc, fetchedAt>>
                       ELSE /\ lgPc' = "raised"
                            /\ lgExc' = "HTTPError" \o status
                            /\ UNCHANGED <<capAttempt, capSleeps, fetchedAt>>
    /\ UNCHANGED <<loginConfig, env, image_bytes, captcha_value, lgErrNames, updates,
                   envAtCall, loginRequests, loginCaptchaSent, now, lgCalls,
                   savedImage, callAt, cachedAt, cachedImage, ocrText, loginResponse>>

\* Mutant of SavesImage: the image is saved whatever the response type.
SavesImageAlways == savePathSet

\* Lines 152-160: the image is saved in the base64_json branch, when
\* save_path is not empty.
SavesImage == responseType = "base64_json" /\ savePathSet

\* Lines 148-168: the answer is decoded.  base64_json: the body must be JSON
\* with a non-empty image field, the image is saved; binary: the content is
\* the image, nothing is saved.
CapDecode ==
    /\ lgPc = "decode"
    /\ IF responseType = "base64_json"
          THEN \E body \in {"not_json", "empty_image", "image"} :
                 IF body = "image"
                    THEN /\ image_bytes' = challengeCount
                         /\ savedImage' = IF SavesImage THEN challengeCount ELSE savedImage
                         /\ lgPc' = "recognize"
                         /\ lgExc' = lgExc
                    ELSE /\ lgPc' = "raised"
                         /\ lgExc' = IF body = "not_json" THEN "JSONDecodeError"
                                                          ELSE "ValueError"
                         /\ UNCHANGED <<image_bytes, savedImage>>
          ELSE /\ image_bytes' = challengeCount
               /\ savedImage' = IF SavesImage THEN challengeCount ELSE savedImage
               /\ lgPc' = "recognize"
               /\ lgExc' = lgExc
    /\ UNCHANGED <<loginConfig, env, capAttempt, captcha_value, lgErrNames, updates,
                   envAtCall, capLog, capSleeps, loginRequests, loginCaptchaSent,
                   now, lgCalls, challengeCount, fetchedAt, callAt, cachedAt,
                   cachedImage, ocrText, loginResponse>>

\* Mutant of CaptchaText: the override is not consulted.
CaptchaTextNoOverride(text) == text

\* Lines 187-189: the recognized digits, or CAPTCHA_VALUE when there are none.
CaptchaText(text) == IF text = "" THEN GetenvOrEmpty(captchaValueEnv) ELSE text

\* Lines 187-197: the image is recognized; with no digits and no override
\* the call fails, naming value_env_key and save_path.
LgRecognize ==
    /\ lgPc = "recognize"
    /\ \E text \in {"", "1234"} :
          /\ ocrText' = text
          /\ captcha_value' = CaptchaText(text)
          /\ IF CaptchaText(text) = ""
                THEN /\ lgPc' = "raised"
                     /\ lgExc' = "ValueError"
                     /\ lgErrNames' = {"value_env_key", "save_path"}
                ELSE /\ lgPc' = "login"
                     /\ UNCHANGED <<lgExc, lgErrNames>>
    /\ UNCHANGED <<loginConfig, loginAcross, env, capAttempt, image_bytes, updates,
                   envAtCall, capLog, capSleeps, loginRequests, loginCaptchaSent,
                   loginResponse>>

\* Mutant of TokenOf: the token is never found.
TokenNeverFound(body) == JNull

\* Lines 257-264: the token of the answer; None when no path is configured.
TokenOf(body) == IF tokenPathSet THEN extract_json_path(body, TokenJsonPath) ELSE JNull

\* Lines 214-282: the login request is sent with the captcha text.  An HTTP
\* error is raised; with a token path a body that is not JSON is a
\* ValueError; otherwise a truthy token and a non-empty cookie header are
\* written to the environment and returned.
LgLoginRequest ==
    /\ lgPc = "login"
    /\ loginRequests' = loginRequests + 1
    /\ loginCaptchaSent' = captcha_value
    /\ \/ /\ lgPc' = "raised"
          /\ lgExc' = "HTTPError"
          /\ loginResponse' = [status |-> "http_error", body |-> JNull, cookies |-> <<>>]
          /\ UNCHANGED <<env, updates>>
       \/ /\ tokenPathSet
          /\ lgPc' = "raised"
          /\ lgExc' = "ValueError"
          /\ loginResponse' = [status |-> "not_json", body |-> JNull, cookies |-> <<>>]
          /\ UNCHANGED <<env, updates>>
       \/ \E body \in LoginBodies, cookie_header \in SessionCookies :
             LET token == TokenOf(body)
             IN  /\ loginResponse' = [status |-> "ok", body |-> body,
                                      cookies |-> cookie_header]
                 /\ envToken' = IF TokenTruthy(token) THEN SetTo(token.val) ELSE envToken
                 /\ envCookie' = IF cookie_header # <<>> THEN SetTo(cookie_header)
                                                         ELSE envCookie
                 /\ updates' =
                       [token |-> IF TokenTruthy(token) THEN SetTo(token.val)
                                                        ELSE Unset(""),
                        cookie |-> IF cookie_header # <<>> THEN SetTo(cookie_header)
                                                           ELSE Unset(<<>>)]
                 /\ lgPc' = "returned"
                 /\ lgExc' = lgExc
    /\ UNCHANGED <<loginConfig, loginAcross, capAttempt, image_bytes, captcha_value,
                   lgErrNames, envAtCall, capLog, capSleeps, ocrText>>

\* The TTL of a cached challenge, in seconds (spec 4.3, default).
CaptchaTtl == 60

\* login_and_refresh_auth is called again, at once or a TTL later; the
\* challenge of the call before, if one was fetched, is the one a cache
\* would hold.
LgCallAgain ==
    /\ lgPc \in {"returned", "raised"}
    /\ lgCalls < MaxLogins
    /\ lgCalls' = lgCalls + 1
    /\ \E dt \in {0, CaptchaTtl} : now' = now + dt
    /\ callAt' = now'
    /\ cachedAt' = fetchedAt
    /\ cachedImage' = image_bytes
    /\ lgPc' = "call"
    /\ capAttempt' = 0
    /\ image_bytes' = 0
    /\ captcha_value' = ""
    /\ lgExc' = NoExc
    /\ lgErrNames' = {}
    /\ updates' = NoUpdates
    /\ envAtCall' = <<envToken, envCookie>>
    /\ capLog' = <<>>
    /\ capSleeps' = <<>>
    /\ loginRequests' = 0
    /\ loginCaptchaSent' = ""
    /\ ocrText' = "none"
    /\ loginResponse' = NoResponse
    /\ UNCHANGED <<loginConfig, env, savedImage, challengeCount, fetchedAt>>

(***************************************************************************)
(* main.py and utils.py on cookie header strings.  A header is written     *)
(* from segments: a segment is a key, and after an optional "=" a value;   *)
(* the segments are joined by ";" followed by a blank.                     *)
(***************************************************************************)
AuthTokenKey == <<"A", "U", "T", "H", "_", "T", "O", "K", "E", "N">>

Seg(k, v) == [key |-> k, value |-> v, eq |-> TRUE]
BareSeg(k) == [key |-> k, value |-> <<>>, eq |-> FALSE]

\* The segments a header may hold: the token pair, plain, padded, with an
\* empty value, a blank value and a value holding "="; the key alone; other
\* cookies, one whose key ends in AUTH_TOKEN, one whose value holds
\* "AUTH_TOKEN=", the key in lower case; a blank segment.
CookieSegments ==
    { Seg(AuthTokenKey, <<"t">>),
      Seg(AuthTokenKey, <<"u">>),
      Seg(<<" ">> \o AuthTokenKey \o <<" ">>, <<" ", "t", " ">>),
      Seg(AuthTokenKey, <<>>),
      Seg(AuthTokenKey, <<" ">>),
      Seg(AuthTokenKey, <<"t", "=", "u">>),
      BareSeg(AuthTokenKey),
      Seg(<<"A">>, <<"1">>),
      Seg(<<"X">> \o AuthTokenKey, <<"t">>),
      Seg(<<"A">>, AuthTokenKey \o <<"=", "t">>),
      Seg(<<"a", "u", "t", "h", "_", "t", "o", "k", "e", "n">>, <<"t">>),
      BareSeg(<<" ">>) }

SegText(seg) == IF seg.eq THEN seg.key \o <<"=">> \o seg.value ELSE seg.key

\* "; ".join(texts)
RECURSIVE JoinWith(_, _)
JoinWith(texts, sep) ==
    IF texts = <<>> THEN <<>>
    ELSE IF Len(texts) = 1 THEN texts[1]
    ELSE texts[1] \o sep \o JoinWith(Tail(texts), sep)

HeaderText(segs) == JoinWith([k \in 1..Len(segs) |-> SegText(segs[k])], <<";", " ">>)

Chars(str) == {str[k] : k \in 1..Len(str)}

FirstIndex(str, c) == CHOOSE k \in 1..Len(str) : str[k] = c /\ \A j \in 1..(k - 1) : str[j] # c

\* str.split(sep)
RECURSIVE Split(_, _)
Split(str, sep) ==
    IF sep \notin Chars(str) THEN <<str>>
    ELSE LET k == FirstIndex(str, sep)
         IN  <<SubSeq(str, 1, k - 1)>> \o Split(SubSeq(str, k + 1, Len(str)), sep)

\* key, value = part.split("=", 1)
KeyOfPart(part) == SubSeq(part, 1, FirstIndex(part, "=") - 1)
ValueOfPart(part) == SubSeq(part, FirstIndex(part, "=") + 1, Len(part))

\* if not part or "=" not in part: continue
PartSkipped(part) == part = <<>> \/ "=" \notin Chars(part)

\* Mutant of SyncSkips: a token that is already set is not looked at.
SyncSkipsOnEmptyHeaderOnly(header, tokenVar) == header = <<>>

\* if not cookie_header or os.getenv(env_key): return
SyncSkips(header, tokenVar) == header = <<>> \/ ~EnvFalsy(tokenVar)

\* _sync_auth_token_from_cookie: the variable env_key after the call.  The
\* first part that is an AUTH_TOKEN pair with a value is taken.
sync_auth_token_from_cookie(header, tokenVar) ==
    IF SyncSkips(header, tokenVar) THEN tokenVar
    ELSE LET raw == Split(header, ";")
             parts == [k \in 1..Len(raw) |-> Strip(raw[k])]
             hits == {k \in 1..Len(parts) :
                         /\ ~PartSkipped(parts[k])
                         /\ Strip(KeyOfPart(parts[k])) = AuthTokenKey
                         /\ Strip(ValueOfPart(parts[k])) # <<>>}
         IN  IF hits = {} THEN tokenVar
             ELSE SetTo(Strip(ValueOfPart(parts[CHOOSE k \in hits : \A j \in hits : k <= j])))

\* The values AUTH_TOKEN may have at the call.
TokenEnvs == {Unset(<<>>), SetTo(<<>>), SetTo(<<"e">>), SetTo(<<" ">>)}

SyncInit ==
    /\ cookieSegments \in SeqsUpTo(CookieSegments, MaxSegments)
    /\ syncHeader = HeaderText(cookieSegments)
    /\ tokenAtCall \in TokenEnvs
    /\ tokenEnv = tokenAtCall
    /\ syncPc = "call"

SyncIdle ==
    /\ cookieSegments = <<>>
    /\ syncHeader = <<>>
    /\ tokenAtCall = Unset(<<>>)
    /\ tokenEnv = Unset(<<>>)
    /\ syncPc = "idle"

\* main.py lines 212 and 215: the token variable is synced from the header.
SyncCall ==
    /\ syncPc = "call"
    /\ tokenEnv' = sync_auth_token_from_cookie(syncHeader, tokenEnv)
    /\ syncPc' = "returned"
    /\ UNCHANGED <<cookieSegments, syncHeader, tokenAtCall>>

\* The same header is synced once more.
SyncCallAgain ==
    /\ syncPc = "returned"
    /\ tokenEnv' = sync_auth_token_from_cookie(syncHeader, tokenEnv)
    /\ syncPc' = "returned2"
    /\ UNCHANGED <<cookieSegments, syncHeader, tokenAtCall>>

\* value.startswith("${") and value.endswith("}")
IsPlaceholder(str) ==
    Len(str) >= 3 /\ str[1] = "$" /\ str[2] = "{" /\ str[Len(str)] = "}"

\* cookies[key] = value on a dict kept in insertion order
DictSet(d, k, v) ==
    IF \E n \in 1..Len(d) : d[n][1] = k
       THEN [n \in 1..Len(d) |-> IF d[n][1] = k THEN <<k, v>> ELSE d[n]]
       ELSE Append(d, <<k, v>>)

\* cookies.get(key): the value, or None
DictGet(d, k) ==
    IF \E n \in 1..Len(d) : d[n][1] = k
       THEN Str((CHOOSE pr \in {d[n] : n \in 1..Len(d)} : pr[1] = k)[2])
       ELSE Missing

RECURSIVE DictOfParts(_, _)
DictOfParts(parts, d) ==
    IF parts = <<>> THEN d
    ELSE LET part == Strip(Head(parts))
         IN  IF PartSkipped(part) THEN DictOfParts(Tail(parts), d)
             ELSE DictOfParts(Tail(parts),
                              DictSet(d, Strip(KeyOfPart(part)), Strip(ValueOfPart(part))))

\* parse_cookie_header: the dict of the header's pairs; a later pair of the
\* same key replaces the value of the earlier one.
parse_cookie_header(header) == DictOfParts(Split(header, ";"), <<>>)

\* A value that is a non-empty string.
TruthyStr(v) == v.present /\ v.val # <<>>

\* os.getenv(env_key): the value, or None
Getenv(v) == IF v.set THEN Str(v.val) ELSE Missing

\* Mutant of NormCurrent: a placeholder is taken as a token.
NormCurrentKeepsPlaceholder(hs) == hs.auth_token

\* Lines 44-47: the explicit header, None when it is a placeholder.
NormCurrent(hs) ==
    IF hs.auth_token.present /\ IsPlaceholder(hs.auth_token.val) THEN Missing
    ELSE hs.auth_token

\* normalize_auth_headers: the value returned and the headers afterwards.
normalize_auth_headers(hs, envVar) ==
    LET current == NormCurrent(hs)
        popped == [hs EXCEPT !.auth_token = current]
        cookie_text == IF hs.cookie.present THEN hs.cookie.val ELSE <<>>
        cookie_token == DictGet(parse_cookie_header(cookie_text), AuthTokenKey)
        env_token == Getenv(envVar)
        token == IF TruthyStr(cookie_token) THEN cookie_token ELSE env_token
    IN  IF TruthyStr(current) THEN [token |-> current, headers |-> popped]
        ELSE IF TruthyStr(token)
                THEN [token |-> token, headers |-> [popped EXCEPT !.auth_token = token]]
                ELSE [token |-> token, headers |-> popped]

\* The auth_token header at the call: absent, empty, a placeholder, a token,
\* a blank, a string that only starts like a placeholder.
AuthSlots ==
    { Missing, Str(<<>>), Str(<<"$", "{", "A", "}">>), Str(<<"h">>), Str(<<" ">>),
      Str(<<"$", "{", "A">>) }

NormInit ==
    /\ nzSegments \in SeqsUpTo(CookieSegments, MaxSegments)
    /\ \E slot \in AuthSlots, withCookie \in BOOLEAN :
          /\ withCookie \/ nzSegments = <<>>
          /\ nzAtCall = [auth_token |-> slot,
                         cookie |-> IF withCookie THEN Str(HeaderText(nzSegments))
                                                  ELSE Missing]
    /\ nzHeaders = nzAtCall
    /\ nzEnv \in TokenEnvs
    /\ nzToken = Missing
    /\ nzPc = "call"

NormIdle ==
    /\ nzSegments = <<>>
    /\ nzAtCall = [auth_token |-> Missing, cookie |-> Missing]
    /\ nzHeaders = nzAtCall
    /\ nzEnv = Unset(<<>>)
    /\ nzToken = Missing
    /\ nzPc = "idle"

\* token = normalize_auth_headers(headers)
NormCall ==
    /\ nzPc = "call"
    /\ LET r == normalize_auth_headers(nzHeaders, nzEnv)
       IN  /\ nzToken' = r.token
           /\ nzHeaders' = r.headers
    /\ nzPc' = "returned"
    /\ UNCHANGED <<nzSegments, nzAtCall, nzEnv>>

\* The headers it returned are normalized once more.
NormCallAgain ==
    /\ nzPc = "returned"
    /\ LET r == normalize_auth_headers(nzHeaders, nzEnv)
       IN  /\ nzToken' = r.token
           /\ nzHeaders' = r.headers
    /\ nzPc' = "returned2"
    /\ UNCHANGED <<nzSegments, nzAtCall, nzEnv>>

(***************************************************************************)
(* utils.py: deep_inject_env on nested values.  A value is a string, an    *)
(* int, None, a list, a tuple or a dict; a dict is the sequence of its     *)
(* <<key, value>> entries in insertion order; the environment is the       *)
(* sequence of its <<name, value>> pairs.                                  *)
(***************************************************************************)
VStr(s) == [kind |-> "str", val |-> s, items |-> <<>>]
VInt(s) == [kind |-> "int", val |-> s, items |-> <<>>]
VNone == [kind |-> "none", val |-> <<>>, items |-> <<>>]
VList(xs) == [kind |-> "list", val |-> <<>>, items |-> xs]
VTuple(xs) == [kind |-> "tuple", val |-> <<>>, items |-> xs]
VDict(es) == [kind |-> "dict", val |-> <<>>, items |-> es]

PhA == <<"$", "{", "A", "}">>
PhB == <<"$", "{", "B", "}">>
PhC == <<"$", "{", "C", "}">>

\* Strings that are placeholders, that hold one as a part only, that are
\* cut short, plain and empty; an int and None.
InjectLeaves ==
    { VStr(PhA), VStr(PhB), VStr(PhC), VStr(<<"a">> \o PhA), VStr(PhA \o <<"y">>),
      VStr(PhA \o PhB), VStr(<<"$", "{", "A">>), VStr(<<"a">>), VStr(<<>>),
      VInt(<<"1">>), VNone }

InjectFillers == {VStr(PhA), VInt(<<"1">>)}

InjectKeys == {<<"k">>, PhA}

\* The objects passed: a leaf, or a list, a tuple or a dict that holds a
\* smaller object next to a filler.
RECURSIVE InjectValues(_)
InjectValues(d) ==
    IF d = 0 THEN InjectLeaves
    ELSE LET inner == InjectValues(d - 1)
         IN  inner
             \cup {VList(<<>>), VTuple(<<>>), VDict(<<>>)}
             \cup {VList(<<f, v>>) : f \in InjectFillers, v \in inner}
             \cup {VTuple(<<v, f>>) : f \in InjectFillers, v \in inner}
             \cup {VDict(<< <<k, v>> >>) : k \in InjectKeys, v \in inner}
             \cup {VDict(<< <<PhA, f>>, <<(<<"k">>), v>> >>) : f \in InjectFillers, v \in inner}

\* The environments: A unset, set, set to the empty string; C set to a
\* placeholder.  B is never set.
Environs ==
    { <<>>,
      << <<(<<"A">>), <<"x">> >> >>,
      << <<(<<"A">>), <<>> >> >>,
      << <<(<<"A">>), <<"x">> >>, <<(<<"C">>), PhA>> >> }

\* Mutant of GetenvOrData: an unset variable gives the empty string.
GetenvOrBlank(environ, name, default) ==
    IF DictGet(environ, name).present THEN VStr(DictGet(environ, name).val)
    ELSE VStr(<<>>)

\* os.getenv(env_key, data)
GetenvOrData(environ, name, default) ==
    IF DictGet(environ, name).present THEN VStr(DictGet(environ, name).val)
    ELSE default

\* env_key = data[2:-1]
EnvKeyOf(str) == SubSeq(str, 3, Len(str) - 1)

\* deep_inject_env of utils.py on a nested value.
RECURSIVE DeepInjectEnv(_, _)
DeepInjectEnv(data, environ) ==
    CASE data.kind = "dict" ->
            VDict([n \in 1..Len(data.items) |->
                      <<data.items[n][1], DeepInjectEnv(data.items[n][2], environ)>>])
      [] data.kind = "list" ->
            VList([n \in 1..Len(data.items) |-> DeepInjectEnv(data.items[n], environ)])
      [] data.kind = "tuple" ->
            VTuple([n \in 1..Len(data.items) |-> DeepInjectEnv(data.items[n], environ)])
      [] data.kind = "str" /\ IsPlaceholder(data.val) ->
            GetenvOrData(environ, EnvKeyOf(data.val), data)
      [] OTHER -> data

InjectInit ==
    /\ injAtCall \in InjectValues(MaxDepth)
    /\ injData = injAtCall
    /\ injEnviron \in Environs
    /\ injOut = VNone
    /\ injPc = "call"

InjectIdle ==
    /\ injAtCall = VNone
    /\ injData = VNone
    /\ injEnviron = <<>>
    /\ injOut = VNone
    /\ injPc = "idle"

\* injected = deep_inject_env(data): new objects are built, nothing is
\* assigned to the object passed.
InjectCall ==
    /\ injPc = "call"
    /\ injOut' = DeepInjectEnv(injData, injEnviron)
    /\ injPc' = "returned"
    /\ UNCHANGED <<injAtCall, injData, injEnviron>>

\* The value returned is injected once more.
InjectCallAgain ==
    /\ injPc = "returned"
    /\ injOut' = DeepInjectEnv(injOut, injEnviron)
    /\ injPc' = "returned2"
    /\ UNCHANGED <<injAtCall, injData, injEnviron>>

(***************************************************************************)
(* utils.py: build_cookie_header as a string.  Keys and values are single  *)
(* tokens; the header is the sequence of the tokens of "k1=v1; k2=v2".     *)
(***************************************************************************)
CookieNames == {"A", "B", "C", "D"}
CookieValues == {"1", "", NoneValue}

\* The dicts of at most n cookies: distinct keys in any insertion order.
RECURSIVE CookieDicts(_)
CookieDicts(n) ==
    IF n = 0 THEN {<<>>}
    ELSE LET smaller == CookieDicts(n - 1)
         IN  smaller \cup
             {Append(d, <<k, v>>) : d \in {e \in smaller : Len(e) = n - 1},
                                    k \in CookieNames, v \in CookieValues}

HasDistinctKeys(d) == \A a, b \in 1..Len(d) : d[a][1] = d[b][1] => a = b

\* f"{key}={value}"
PairText(pr) == <<pr[1], "=">> \o (IF pr[2] = "" THEN <<>> ELSE <<pr[2]>>)

\* Line 72: "; ".join(ordered)
CookieHeaderText(ordered) ==
    JoinWith([n \in 1..Len(ordered) |-> PairText(ordered[n])], <<";", " ">>)

CookieInit ==
    /\ ckPairs \in {d \in CookieDicts(MaxCookies) : HasDistinctKeys(d)}
    /\ ckPreferred \in SeqsUpTo({"A", "C", "Z"}, MaxPreferred)
    /\ ckHeader = <<>>
    /\ ckPc = "call"

CookieIdle ==
    /\ ckPairs = <<>>
    /\ ckPreferred = <<>>
    /\ ckHeader = <<>>
    /\ ckPc = "idle"

\* header = build_cookie_header(cookie_pairs=..., preferred_keys=...)
CookieCall ==
    /\ ckPc = "call"
    /\ ckHeader' = CookieHeaderText(build_cookie_header(ckPairs, ckPreferred))
    /\ ckPc' = "returned"
    /\ UNCHANGED <<ckPairs, ckPreferred>>

(***************************************************************************)
(* processor.py: split_excel_by_booker.  A cell is a string or NaN (an     *)
(* empty cell read back by pandas); a row is its number in the sheet, its  *)
(* consigner cell and its booker cell; a file of output_dir is the list of *)
(* the rows written to it.                                                 *)
(***************************************************************************)
NaN == Missing

BookerAB == Str(<<"A", "/", "B">>)
BookerA_B == Str(<<"A", "_", "B">>)
BookerB == Str(<<"B">>)
BookerC == Str(<<"C">>)
BookerD == Str(<<"D">>)
BookerBlank == Str(<<" ">>)
ConsignerT == Str(<<"T">>)
ConsignerO == Str(<<"O">>)

\* The cells a row of the sheet may hold: consigner, booker.
SplitCells ==
    { <<ConsignerT, BookerAB>>, <<ConsignerT, BookerA_B>>, <<ConsignerT, BookerC>>,
      <<ConsignerT, BookerB>>, <<ConsignerO, BookerD>>, <<ConsignerO, BookerC>>,
      <<ConsignerT, NaN>>, <<ConsignerT, BookerBlank>> }

SheetOf(cells) ==
    [n \in 1..Len(cells) |-> [id |-> n, consigner |-> cells[n][1], booker |-> cells[n][2]]]

\* Line 86: groupby sorts the group keys, NaN last.
BookerOrder == <<BookerBlank, BookerAB, BookerA_B, BookerB, BookerC, BookerD, NaN>>

UnsafeChars == {"/", "\\", ":", "*", "?", "\"", "<", ">", "|"}

\* Mutant of sanitize_filename: the name is used as it is.
SanitizeNothing(name) == name

\* _sanitize_filename: each unsafe character becomes "_", then strip()
sanitize_filename(name) ==
    Strip([k \in 1..Len(name) |-> IF name[k] \in UnsafeChars THEN "_" ELSE name[k]])

\* output_template.format(actual_booker=safe_name), "{actual_booker}.xlsx"
OutputFileName(safe_name) == safe_name \o <<".xlsx">>

\* "" if pd.isna(actual_booker) else str(actual_booker)
BookerName(cell) == IF cell.present THEN cell.val ELSE <<>>

\* Mutant of GroupSkipped: no group is skipped.
GroupSkippedNever(cell) == FALSE

\* if not actual_booker_name.strip()
GroupSkipped(cell) == Strip(BookerName(cell)) = <<>>

\* Mutant of ExcludeKeeps: the excluded booker is kept.
ExcludeKeepsAll(row, exclude) == TRUE

\* Lines 76-78: df[actual_booker_field] != actual_booker_exclude
ExcludeKeeps(row, exclude) == ~TruthyStr(exclude) \/ row.booker # exclude

\* Lines 67-71: df[consigner_field] == consigner_value
ConsignerKeeps(row, value) == ~TruthyStr(value) \/ row.consigner = value

\* The group keys of a frame in groupby order.
GroupKeys(df) ==
    SelectSeq(BookerOrder, LAMBDA key : \E n \in 1..Len(df) : df[n].booker = key)

GroupRows(df, key) == SelectSeq(df, LAMBDA row : row.booker = key)

SplitInit ==
    /\ spInputExists \in BOOLEAN
    /\ spColumns \in [consigner : BOOLEAN, booker : BOOLEAN]
    /\ spRows \in {SheetOf(cells) : cells \in SeqsUpTo(SplitCells, MaxSplitRows)}
    /\ (~spInputExists \/ ~spColumns.consigner \/ ~spColumns.booker) => Len(spRows) <= 1
    /\ spConsigner \in {Missing, Str(<<>>), ConsignerT}
    /\ spExclude \in {Missing, BookerB}
    /\ spDf = <<>>
    /\ spPending = <<>>
    /\ spOutputs = <<>>
    /\ spFiles = <<>>
    /\ spWrites = <<>>
    /\ spPc = "call"
    /\ spExc = NoExc

SplitIdle ==
    /\ spInputExists = FALSE
    /\ spColumns = [consigner |-> FALSE, booker |-> FALSE]
    /\ spRows = <<>>
    /\ spConsigner = Missing
    /\ spExclude = Missing
    /\ spDf = <<>>
    /\ spPending = <<>>
    /\ spOutputs = <<>>
    /\ spFiles = <<>>
    /\ spWrites = <<>>
    /\ spPc = "idle"
    /\ spExc = NoExc

\* Mutant of MissingColumn: the consigner column is not looked for.
MissingColumnBookerOnly(columns, value) == ~columns.booker

\* Lines 67-74: a column that is needed is not in the sheet.
MissingColumn(columns, value) ==
    (TruthyStr(value) /\ ~columns.consigner) \/ ~columns.booker

\* Lines 59-82: the input is checked and read, the consigner filter and the
\* exclusion are applied, the groups are formed.
SplitRead ==
    /\ spPc = "call"
    /\ IF ~spInputExists
          THEN /\ spPc' = "raised" /\ spExc' = "FileNotFoundError"
               /\ UNCHANGED <<spDf, spPending>>
          ELSE IF MissingColumn(spColumns, spConsigner)
          THEN /\ spPc' = "raised" /\ spExc' = "KeyError"
               /\ UNCHANGED <<spDf, spPending>>
          ELSE LET df == SelectSeq(spRows, LAMBDA row :
                             ConsignerKeeps(row, spConsigner) /\ ExcludeKeeps(row, spExclude))
               IN  /\ spDf' = df
                   /\ spPending' = GroupKeys(df)
                   /\ spPc' = "groups"
                   /\ spExc' = spExc
    /\ UNCHANGED <<splitArgs, spOutputs, spFiles, spWrites>>

\* Lines 86-99, one pass of the loop: an empty group is skipped, any other
\* is written to its file and entered in outputs.
SplitGroup ==
    /\ spPc = "groups" /\ spPending # <<>>
    /\ LET key == Head(spPending)
           output_path == OutputFileName(sanitize_filename(BookerName(key)))
           group == GroupRows(spDf, key)
       IN  IF GroupSkipped(key)
              THEN UNCHANGED <<spOutputs, spFiles, spWrites>>
              ELSE /\ spFiles' = DictSet(spFiles, output_path, group)
                   /\ spWrites' = Append(spWrites, <<output_path, group>>)
                   /\ spOutputs' = DictSet(spOutputs, BookerName(key), output_path)
    /\ spPending' = Tail(spPending)
    /\ UNCHANGED <<splitArgs, spDf, spPc, spExc>>

\* Line 101: return outputs
SplitReturn ==
    /\ spPc = "groups" /\ spPending = <<>>
    /\ spPc' = "returned"
    /\ UNCHANGED <<splitArgs, spDf, spPending, spOutputs, spFiles, spWrites, spExc>>

(***************************************************************************)
(* exporter.export_by_direction.  A frame is a sequence of rows, a row has  *)
(* the dedup key column and one other column, a cell is a string or NaN.    *)
(* A sheet is what to_excel stores: the same rows, an empty cell for NaN.   *)
(***************************************************************************)
MaxRecords == 2

MaxExportRuns == 2

EmptyCell == Missing

\* The strings read_excel turns into NaN (its default na_values), as far as
\* they can be written with the texts used here.
NaStrings == {<<>>, <<"N", "A">>}

ToExcelCell(cell) == IF cell = NaN THEN EmptyCell ELSE cell

ReadExcelCell(cell) ==
    IF cell = EmptyCell \/ cell.val \in NaStrings THEN NaN ELSE cell

ToExcel(df) ==
    [k \in 1..Len(df) |->
        [key |-> ToExcelCell(df[k].key), val |-> ToExcelCell(df[k].val)]]

ReadExcel(sheet) ==
    [k \in 1..Len(sheet) |->
        [key |-> ReadExcelCell(sheet[k].key), val |-> ReadExcelCell(sheet[k].val)]]

\* Mutant of DropDuplicates: rows are duplicates only when equal in every
\* column.
RECURSIVE DropDuplicatesWholeRow(_)
DropDuplicatesWholeRow(df) ==
    IF df = <<>> THEN <<>>
    ELSE LET kept == DropDuplicatesWholeRow(SubSeq(df, 1, Len(df) - 1))
             last == df[Len(df)]
         IN  IF \E k \in 1..Len(kept) : kept[k] = last
             THEN kept ELSE Append(kept, last)

\* combined.drop_duplicates(subset=dedup_keys): the first row of each key
\* stays, in order; NaN keys are equal to each other.
RECURSIVE DropDuplicates(_)
DropDuplicates(df) ==
    IF df = <<>> THEN <<>>
    ELSE LET kept == DropDuplicates(SubSeq(df, 1, Len(df) - 1))
             last == df[Len(df)]
         IN  IF \E k \in 1..Len(kept) : kept[k].key = last.key
             THEN kept ELSE Append(kept, last)

Directions == <<"in", "out">>

\* output_dir / template.format(direction=direction)
ExportPath(direction) == <<direction, ".xlsx">>

ExportPaths == {ExportPath(Directions[k]) : k \in 1..Len(Directions)}

NoFile == [exists |-> FALSE, sheet |-> <<>>]

FileOf(sheet) == [exists |-> TRUE, sheet |-> sheet]

ExportRow(key, val) == [key |-> Str(key), val |-> Str(val)]

ExportRecords ==
    {ExportRow(key, val) : key \in {<<"x">>, <<"y">>, <<"N", "A">>},
                           val \in {<<"1">>, <<"2">>}}

RECURSIVE RecordLists(_)
RecordLists(len) ==
    IF len = 0 THEN {<<>>}
    ELSE RecordLists(len - 1) \cup
         {Append(recs, r) : recs \in {l \in RecordLists(len - 1) : Len(l) = len - 1},
                            r \in ExportRecords}

\* The files an earlier export left in output_dir.
EarlierFiles(direction) ==
    IF direction = "in"
    THEN {NoFile, FileOf(<<ExportRow(<<"x">>, <<"1">>)>>),
          FileOf(<<ExportRow(<<"N", "A">>, <<"2">>)>>)}
    ELSE {NoFile, FileOf(<<ExportRow(<<"x">>, <<"2">>)>>)}

ExportInit ==
    /\ \E recsIn \in RecordLists(MaxRecords),
          recsOut \in {<<>>, <<ExportRow(<<"y">>, <<"1">>)>>} :
            exGrouped = << <<"in", recsIn>>, <<"out", recsOut>> >>
    /\ exFiles \in [ExportPaths -> UNION {EarlierFiles(Directions[k]) : k \in 1..Len(Directions)}]
    /\ \A k \in 1..Len(Directions) :
            exFiles[ExportPath(Directions[k])] \in EarlierFiles(Directions[k])
    /\ exAtCall = exFiles
    /\ exPending = <<>>
    /\ exOutputs = <<>>
    /\ exRuns = 0
    /\ exFirst = exFiles
    /\ exPc = "call"

ExportIdle ==
    /\ exGrouped = <<>>
    /\ exFiles = <<>>
    /\ exAtCall = <<>>
    /\ exPending = <<>>
    /\ exOutputs = <<>>
    /\ exRuns = 0
    /\ exFirst = <<>>
    /\ exPc = "idle"

\* export_by_direction is called with the same grouped records, the first
\* time or once more: outputs is empty and the loop is at the first item.
ExportCall ==
    /\ exPc \in {"call", "returned"}
    /\ exRuns < MaxExportRuns
    /\ exAtCall' = exFiles
    /\ exPending' = exGrouped
    /\ exOutputs' = <<>>
    /\ exPc' = "loop"
    /\ UNCHANGED <<exGrouped, exFiles, exRuns, exFirst>>

\* One turn of the loop over grouped.items().
ExportGroup ==
    /\ exPc = "loop"
    /\ exPending # <<>>
    /\ LET direction == Head(exPending)[1]
           records == Head(exPending)[2]
           file_path == ExportPath(direction)
           new_df == records
           combined == IF exFiles[file_path].exists
                       THEN ReadExcel(exFiles[file_path].sheet) \o new_df
                       ELSE new_df
       IN  IF records = <<>>
           THEN UNCHANGED <<exFiles, exOutputs>>
           ELSE /\ exFiles' = [exFiles EXCEPT ![file_path] =
                                   FileOf(ToExcel(DropDuplicates(combined)))]
                /\ exOutputs' = DictSet(exOutputs, direction, file_path)
    /\ exPending' = Tail(exPending)
    /\ UNCHANGED <<exGrouped, exAtCall, exRuns, exFirst, exPc>>

ExportReturn ==
    /\ exPc = "loop"
    /\ exPending = <<>>
    /\ exPc' = "returned"
    /\ exRuns' = exRuns + 1
    /\ exFirst' = IF exRuns = 0 THEN exFiles ELSE exFirst
    /\ UNCHANGED <<exGrouped, exFiles, exAtCall, exPending, exOutputs>>

(***************************************************************************)
(* fetch_all_real_train_info and the objects of its caller.  Objects are   *)
(* held by reference: the heap maps a reference to the object's value, an  *)
(* assignment to an item changes the heap at the reference assigned        *)
(* through.  The retry loop and the page loop are those of the fetcher,    *)
(* with the server's answers reduced to ok, failure and 401.               *)
(***************************************************************************)
MaxFrameRetries == 2

MaxFramePages == 2

VTrue == [kind |-> "bool", val |-> <<"True">>, items |-> <<>>]

VFalse == [kind |-> "bool", val |-> <<"False">>, items |-> <<>>]

\* The objects of the caller, and the objects the fetcher makes.
CallerRefs == {"headers", "payload_template", "auth_link_flow"}

OwnRefs == {"injected_headers", "base_payload", "injected_flow", "payload",
            "transfer_headers"}

PageNumberField == <<"pageNumber">>

FrameHeaders ==
    { VDict(<< <<(<<"auth_token">>), VStr(PhA)>>, <<(<<"cookie">>), VStr(PhB)>> >>),
      VDict(<< <<(<<"accept">>), VStr(<<"j">>)>> >>) }

FramePayloads ==
    { VDict(<< <<PageNumberField, VInt(<<"0">>)>>,
               <<(<<"pageSize">>), VInt(<<"2">>)>>,
               <<(<<"params">>), VDict(<< <<(<<"code">>), VStr(PhA)>>,
                                          <<(<<"sorts">>), VList(<<>>)>> >>)>> >>),
      VDict(<< <<(<<"params">>), VList(<<VStr(PhC), VStr(<<"a">>)>>)>> >>) }

FrameFlows ==
    { VNone, VDict(<<>>),
      VDict(<< <<(<<"enabled">>), VFalse>> >>),
      VDict(<< <<(<<"enabled">>), VTrue>>,
               <<(<<"transfer_headers">>),
                 VDict(<< <<(<<"auth_token">>), VStr(PhA)>> >>)>> >>) }

\* Mutant of NewObject: the object passed is changed in place.
SameObject(passed, fresh) == passed

\* deep_inject_env returns a dict it has built, not the one it was given.
NewObject(passed, fresh) == fresh

\* auth_link_flow or {}
FlowOrEmpty(flow) == IF flow = VNone \/ flow = VDict(<<>>) THEN VDict(<<>>) ELSE flow

\* auth_link_flow.get("enabled", False)
FrameFlowEnabled(flow) == DictGet(flow.items, <<"enabled">>) = Str(VTrue)

\* target[key] = value
SetItem(target, key, value) == VDict(DictSet(target.items, key, value))

\* payload = dict(base_payload); payload[page_number_field] = page_number
PayloadOfPage(base, page) == SetItem(base, PageNumberField, VInt(<<Digits[page + 1]>>))

\* transfer_headers = dict(auth_link_flow.get("transfer_headers", {...}));
\* transfer_headers["auth_token"] = auth_token
TransferHeaders(flow) ==
    LET given == DictGet(flow.items, <<"transfer_headers">>)
    IN  SetItem(IF given.present THEN given.val ELSE VDict(<<>>),
                <<"auth_token">>, VStr(<<"t">>))

FrameInit ==
    /\ \E hs \in FrameHeaders, pt \in FramePayloads, fl \in FrameFlows :
          frHeap = [r \in CallerRefs \cup OwnRefs |->
                       CASE r = "headers" -> hs
                         [] r = "payload_template" -> pt
                         [] r = "auth_link_flow" -> fl
                         [] OTHER -> VNone]
    /\ frAtCall = [r \in CallerRefs |-> frHeap[r]]
    /\ frEnvAtCall \in Environs
    /\ frEnviron = frEnvAtCall
    /\ frHeaders = "" /\ frBase = "" /\ frFlow = ""
    /\ frRetries \in 1..MaxFrameRetries
    /\ frAttempt = 1
    /\ frPage = 0
    /\ frPages = 0
    /\ frUsed = FALSE
    /\ frPc = "call"
    /\ frSent = <<>>

FrameIdle ==
    /\ frHeap = <<>>
    /\ frAtCall = <<>>
    /\ frEnvAtCall = <<>>
    /\ frEnviron = <<>>
    /\ frHeaders = "" /\ frBase = "" /\ frFlow = ""
    /\ frRetries = 1
    /\ frAttempt = 1
    /\ frPage = 0
    /\ frPages = 0
    /\ frUsed = FALSE
    /\ frPc = "idle"
    /\ frSent = <<>>

\* Lines 59-65: headers, payload_template and auth_link_flow are injected;
\* the names headers, base_payload and auth_link_flow now hold the results.
FrameInject ==
    /\ frPc = "call"
    /\ LET hRef == NewObject("headers", "injected_headers")
           bRef == NewObject("payload_template", "base_payload")
           fRef == NewObject("auth_link_flow", "injected_flow")
       IN  /\ frHeaders' = hRef
           /\ frBase' = bRef
           /\ frFlow' = fRef
           /\ frHeap' = [r \in DOMAIN frHeap |->
                 IF r = hRef THEN DeepInjectEnv(frHeap["headers"], frEnviron)
                 ELSE IF r = bRef
                    THEN DeepInjectEnv(frHeap["payload_template"], frEnviron)
                 ELSE IF r = fRef
                    THEN DeepInjectEnv(FlowOrEmpty(frHeap["auth_link_flow"]), frEnviron)
                 ELSE frHeap[r]]
    /\ frPc' = "page"
    /\ UNCHANGED <<frAtCall, frEnvAtCall, frEnviron, frRetries, frAttempt, frPage,
                   frPages, frUsed, frSent>>

\* Lines 195-197 and 217-219: the payload of the page is a copy of
\* base_payload with the page number set.
FramePayload ==
    /\ frPc = "page"
    /\ frHeap' = [frHeap EXCEPT !["payload"] = PayloadOfPage(frHeap[frBase], frPage)]
    /\ frAttempt' = 1
    /\ frPc' = "post"
    /\ UNCHANGED <<frAtCall, frEnvAtCall, frEnviron, frameLocals, frRetries, frPage,
                   frPages, frUsed, frSent>>

\* session.post(url, json=data, headers=headers, timeout=timeout)
FrameSend ==
    frSent' = Append(frSent, [headers |-> frHeap[frHeaders], json |-> frHeap["payload"]])

\* Lines 174-186, the answer is ok: the first answer fixes the page count;
\* the next page follows, or the rows are returned.
FramePostOk ==
    /\ frPc = "post" /\ frAttempt <= frRetries
    /\ FrameSend
    /\ \E pages \in 1..MaxFramePages :
          LET count == IF frPage = 0 THEN pages ELSE frPages
          IN  /\ frPages' = count
              /\ IF frPage + 1 < count
                    THEN frPage' = frPage + 1 /\ frPc' = "page"
                    ELSE frPage' = frPage /\ frPc' = "returned"
    /\ UNCHANGED <<frHeap, frAtCall, frEnvAtCall, frEnviron, frameLocals, frRetries,
                   frAttempt, frUsed>>

\* Lines 176-184: a 401 with the flow enabled and not yet used; the flow
\* builds its own transfer headers and the attempt is used up.
FramePost401Reauth ==
    /\ frPc = "post" /\ frAttempt <= frRetries
    /\ ~frUsed /\ FrameFlowEnabled(frHeap[frFlow])
    /\ FrameSend
    /\ frHeap' = [frHeap EXCEPT !["transfer_headers"] = TransferHeaders(frHeap[frFlow])]
    \* the flag is set when the flow returns, not when it raises
    /\ frUsed' \in BOOLEAN
    /\ frAttempt' = frAttempt + 1
    /\ UNCHANGED <<frAtCall, frEnvAtCall, frEnviron, frameLocals, frRetries, frPage,
                   frPages, frPc>>

\* Lines 185-191: the request fails; the next attempt sends the same data.
FramePostFail ==
    /\ frPc = "post" /\ frAttempt <= frRetries
    /\ FrameSend
    /\ frAttempt' = frAttempt + 1
    /\ UNCHANGED <<frHeap, frAtCall, frEnvAtCall, frEnviron, frameLocals, frRetries,
                   frPage, frPages, frUsed, frPc>>

\* Line 192: raise last_exc
FrameRaise ==
    /\ frPc = "post" /\ frAttempt > frRetries
    /\ frPc' = "raised"
    /\ UNCHANGED <<frHeap, frAtCall, frEnvAtCall, frEnviron, frameLocals, frRetries,
                   frAttempt, frPage, frPages, frUsed, frSent>>

UtilIdle ==
    SyncIdle /\ NormIdle /\ InjectIdle /\ CookieIdle /\ SplitIdle /\ ExportIdle
        /\ FrameIdle

ProgIdle == FetchIdle /\ DlIdle /\ FilterIdle /\ MainIdle /\ LoginIdle

(***************************************************************************)
(* Specifications: one per operation, the others idle.                     *)
(***************************************************************************)
\* fetch_all_real_train_info
notFetch == <<dlVars, filterVars, mainVars, loginVars, utilVars>>

Init == FetchInit /\ DlIdle /\ FilterIdle /\ MainIdle /\ LoginIdle /\ UtilIdle

Next ==
    \/ Post401Reauth /\ UNCHANGED notFetch
    \/ PostFail /\ UNCHANGED notFetch
    \/ RaiseLastExc /\ UNCHANGED notFetch
    \/ FetchFirstOk /\ UNCHANGED notFetch
    \/ FetchNextOk /\ UNCHANGED notFetch

Spec == Init /\ [][Next]_vars

\* The fetcher is sequential code in which every HTTP call returns or
\* raises and every sleep ends: it always takes its next step.
SpecFetchLive == Spec /\ WF_vars(Next)

\* download_export_loaded_box_xlsx
notDownload == <<fetchVars, filterVars, mainVars, loginVars, utilVars>>

InitDownload == DlInit /\ FetchIdle /\ FilterIdle /\ MainIdle /\ LoginIdle /\ UtilIdle

NextDownload ==
    \/ DlEmptyGuard /\ UNCHANGED notDownload
    \/ DlPrepare /\ UNCHANGED notDownload
    \/ DlPostOk /\ UNCHANGED notDownload
    \/ DlPostFail /\ UNCHANGED notDownload
    \/ DlRaise /\ UNCHANGED notDownload

SpecDownload == InitDownload /\ [][NextDownload]_vars

\* filter_codes_for_day
notFilter == <<fetchVars, dlVars, mainVars, loginVars, utilVars>>

InitFilter == FilterInit /\ FetchIdle /\ DlIdle /\ MainIdle /\ LoginIdle /\ UtilIdle

NextFilter ==
    \/ FilterCall /\ UNCHANGED notFilter
    \/ FilterCallAgain /\ UNCHANGED notFilter

SpecFilter == InitFilter /\ [][NextFilter]_vars

\* filter_train_codes_by_day
InitRange == RangeInit /\ FetchIdle /\ DlIdle /\ MainIdle /\ LoginIdle /\ UtilIdle

NextRange == RangeCall /\ UNCHANGED notFilter

SpecRange == InitRange /\ [][NextRange]_vars

\* main
notMain == <<fetchVars, dlVars, filterVars, loginVars, utilVars>>

InitMain == MainInit /\ FetchIdle /\ DlIdle /\ FilterIdle /\ LoginIdle /\ UtilIdle

NextMain ==
    \/ MainLogin /\ UNCHANGED notMain
    \/ MainSyncOnly /\ UNCHANGED notMain
    \/ MainValidate /\ UNCHANGED notMain
    \/ MainFetch /\ UNCHANGED notMain
    \/ MainFilter /\ UNCHANGED notMain
    \/ MainDownload /\ UNCHANGED notMain
    \/ MainSplit /\ UNCHANGED notMain

SpecMain == InitMain /\ [][NextMain]_vars

\* fetch_all_real_train_info and download_export_loaded_box_xlsx called directly
InitCall == CallInit /\ FetchIdle /\ DlIdle /\ FilterIdle /\ LoginIdle /\ UtilIdle

NextCall ==
    \/ MainFetch /\ UNCHANGED notMain
    \/ MainDownload /\ UNCHANGED notMain

SpecCall == InitCall /\ [][NextCall]_vars

\* login_and_refresh_auth
notLogin == <<fetchVars, dlVars, filterVars, mainButEnv, utilVars>>

InitLogin == LoginInit /\ FetchIdle /\ DlIdle /\ FilterIdle /\ MainIdleButEnv /\ UtilIdle

NextLogin ==
    \/ LgDisabled /\ UNCHANGED notLogin
    \/ LgStartCaptcha /\ UNCHANGED notLogin
    \/ LgCaptchaOff /\ UNCHANGED notLogin
    \/ CapRequest /\ UNCHANGED notLogin
    \/ CapDecode /\ UNCHANGED notLogin
    \/ LgRecognize /\ UNCHANGED notLogin
    \/ LgLoginRequest /\ UNCHANGED notLogin
    \/ LgCallAgain /\ UNCHANGED notLogin

SpecLogin == InitLogin /\ [][NextLogin]_vars

\* _sync_auth_token_from_cookie
notSync == <<progVars, normVars, injVars, cookieVars, splitVars, exportVars,
    frameVars>>

InitSync ==
    SyncInit /\ ProgIdle /\ NormIdle /\ InjectIdle /\ CookieIdle /\ SplitIdle
        /\ FrameIdle
        /\ ExportIdle

NextSync ==
    \/ SyncCall /\ UNCHANGED notSync
    \/ SyncCallAgain /\ UNCHANGED notSync

SpecSync == InitSync /\ [][NextSync]_vars

\* normalize_auth_headers
notNorm == <<progVars, syncVars, injVars, cookieVars, splitVars, exportVars,
    frameVars>>

InitNorm ==
    NormInit /\ ProgIdle /\ SyncIdle /\ InjectIdle /\ CookieIdle /\ SplitIdle
        /\ FrameIdle
        /\ ExportIdle

NextNorm ==
    \/ NormCall /\ UNCHANGED notNorm
    \/ NormCallAgain /\ UNCHANGED notNorm

SpecNorm == InitNorm /\ [][NextNorm]_vars

\* deep_inject_env
notInject == <<progVars, syncVars, normVars, cookieVars, splitVars, exportVars,
    frameVars>>

InitInject ==
    InjectInit /\ ProgIdle /\ SyncIdle /\ NormIdle /\ CookieIdle /\ SplitIdle
        /\ FrameIdle
        /\ ExportIdle

NextInject ==
    \/ InjectCall /\ UNCHANGED notInject
    \/ InjectCallAgain /\ UNCHANGED notInject

SpecInject == InitInject /\ [][NextInject]_vars

\* build_cookie_header
notCookie == <<progVars, syncVars, normVars, injVars, splitVars, exportVars,
    frameVars>>

InitCookie ==
    CookieInit /\ ProgIdle /\ SyncIdle /\ NormIdle /\ InjectIdle /\ SplitIdle
        /\ FrameIdle
        /\ ExportIdle

NextCookie == CookieCall /\ UNCHANGED notCookie

SpecCookie == InitCookie /\ [][NextCookie]_vars

\* split_excel_by_booker
notSplit == <<progVars, syncVars, normVars, injVars, cookieVars, exportVars,
    frameVars>>

InitSplit ==
    SplitInit /\ ProgIdle /\ SyncIdle /\ NormIdle /\ InjectIdle /\ CookieIdle
        /\ FrameIdle
        /\ ExportIdle

NextSplit ==
    \/ SplitRead /\ UNCHANGED notSplit
    \/ SplitGroup /\ UNCHANGED notSplit
    \/ SplitReturn /\ UNCHANGED notSplit

SpecSplit == InitSplit /\ [][NextSplit]_vars

\* export_by_direction
notExport == <<progVars, syncVars, normVars, injVars, cookieVars, splitVars,
    frameVars>>

InitExport ==
    ExportInit /\ ProgIdle /\ SyncIdle /\ NormIdle /\ InjectIdle /\ CookieIdle
        /\ FrameIdle
        /\ SplitIdle

NextExport ==
    \/ ExportCall /\ UNCHANGED notExport
    \/ ExportGroup /\ UNCHANGED notExport
    \/ ExportReturn /\ UNCHANGED notExport

SpecExport == InitExport /\ [][NextExport]_vars

\* fetch_all_real_train_info and its caller's objects
notFrame == <<progVars, syncVars, normVars, injVars, cookieVars, splitVars,
              exportVars>>

InitFrame ==
    FrameInit /\ ProgIdle /\ SyncIdle /\ NormIdle /\ InjectIdle /\ CookieIdle
        /\ SplitIdle /\ ExportIdle

NextFrame ==
    \/ FrameInject /\ UNCHANGED notFrame
    \/ FramePayload /\ UNCHANGED notFrame
    \/ FramePostOk /\ UNCHANGED notFrame
    \/ FramePost401Reauth /\ UNCHANGED notFrame
    \/ FramePostFail /\ UNCHANGED notFrame
    \/ FrameRaise /\ UNCHANGED notFrame

SpecFrame == InitFrame /\ [][NextFrame]_vars

(***************************************************************************)
(* Properties of the fetcher.                                              *)
(***************************************************************************)
FailureFree == numRequests = Len(served)
LastRequested == reqLog[Len(reqLog)]
TransportHttpErrors == {"HTTPError401", "HTTPError500", "Timeout", "AuthLinkError"}

\* C1: against a well-formed listing server (declared total T, every page
\* holding min(page_size, rows remaining) rows) a failure-free run that returns
\* has issued exactly max(1, ceil(T / page_size)) listing requests and returns
\* exactly T rows.
InvC1 ==
    (pc = "returned" /\ wellFormed /\ FailureFree)
        => /\ numRequests = Max(1, CeilDiv(firstDeclared, page_size))
           /\ Len(returnedRows) = firstDeclared

\* C1 witness: total 3 with page size 2 is fetched in 2 requests and 3 rows.
WitC1 ==
    /\ pc = "returned" /\ wellFormed /\ FailureFree
    /\ firstDeclared = 3 /\ page_size = 2
    /\ numRequests = 2 /\ Len(returnedRows) = 3

\* C2: the auth-link flow is started at most once in a fetch run, whatever the
\* server answers and whether or not the flow itself raises.
InvC2 == reauthStarts <= 1

PropC4 ==
    /\ [](pageRequests <= retries)
    /\ [](pc = "raised" => returnedRows = <<>>)
    /\ [][(InLoop /\ attempt > retries)
            => (pc' = "raised" /\ returnedRows' = <<>>)]_vars

\* C4 witness: the run raised on a later page, with rows of earlier pages
\* accumulated.
WitC4 ==
    /\ pc = "raised" /\ Len(served) >= 1 /\ all_rows # <<>>
    /\ pageRequests = retries /\ returnedRows = <<>>

\* C5: for retries >= 1, the error raised when a request runs out of attempts
\* is a transport/HTTP error, the last one seen among the attempts of that
\* request.
InvC5 ==
    (pc = "raised" /\ retries >= 1)
        => (raisedExc \in TransportHttpErrors /\ raisedExc = lastObserved)

\* C6: pages are asked for in the order start_page, start_page + 1, ... with
\* none skipped, and the rows accumulated and returned are the served pages'
\* rows, concatenated in page order, each page in the server's order, nothing
\* dropped or reordered.
InvC6 ==
    /\ \A k \in 1..Len(reqLog) : reqLog[k] = start_page_number + k - 1
    /\ all_rows = Flatten(served)
    /\ (pc = "returned" => returnedRows = Flatten(served))

\* C6 witness: two pages served, the first in descending and the second in
\* ascending order, so rows repeat across the pages.
WitC6 ==
    /\ pc = "returned" /\ Len(reqLog) = 2
    /\ served = << <<2, 1>>, <<1, 2>> >>
    /\ returnedRows = <<2, 1, 1, 2>>

\* The number of pages the first response calls for.
DeclaredTotal == IF firstDeclared = -1 THEN 0 ELSE firstDeclared
ExpectedPages ==
    IF DeclaredTotal <= Len(served[1]) THEN 1
    ELSE CeilDiv(DeclaredTotal, page_size)

\* C7: once the first response is in, the number of pages requested never
\* exceeds, and at the return equals, 1 when total <= rows of the first response
\* (a missing total counting as 0) and ceil(total / page_size) otherwise; an ok
\* response, whatever its total and rows, never makes the run raise.
InvC7 ==
    /\ served # <<>>
        => /\ Len(reqLog) <= ExpectedPages
           /\ (pc = "returned" => Len(reqLog) = ExpectedPages)
    /\ (pc = "raised" => lastStatus # "ok")

\* C7 witness: three pages called for by the first response; the later pages
\* come back empty and with excess rows, and three pages were requested.
WitC7 ==
    /\ pc = "returned" /\ firstDeclared = 3 /\ page_size = 1
    /\ Len(served) = 3 /\ served[2] = <<>> /\ Len(served[3]) = 2
    /\ Len(reqLog) = 3

(***************************************************************************)
(* Properties of the top-level run.                                        *)
(***************************************************************************)
\* Both auth slots of a header set are ${VAR} placeholders whose variables
\* are unset or empty.
TokenVarEmpty == ~envToken.set \/ envToken.val = ""
CookieVarEmpty == ~envCookie.set \/ envCookie.val = <<>>
BothSlotsEmpty(headers) ==
    /\ headers.auth_token = "placeholder" /\ TokenVarEmpty
    /\ headers.cookie = "placeholder" /\ CookieVarEmpty

Called(stage) == \E k \in 1..Len(stageLog) : stageLog[k] = stage

MissingOf(headers) ==
    {SlotVarName(key) : key \in {k \in {"auth_token", "cookie"} :
                                    headers[k] = "placeholder"
                                    /\ (IF k = "auth_token" THEN TokenVarEmpty
                                                            ELSE CookieVarEmpty)}}

DirectCallFailsFast ==
    /\ (Called("fetch") /\ BothSlotsEmpty(listHeaders)) => mainListRequests = 0
    /\ (Called("download") /\ BothSlotsEmpty(exportHeaders)) => mainExportRequests = 0

(***************************************************************************)
(* Properties of the export download.                                      *)
(***************************************************************************)
\* C9: called with an empty code list, the download raises ValueError, has sent
\* no export request and has left the file at out_path as it was (absent or
\* with its old content).
InvC9 ==
    (real_train_codes = <<>> /\ dlPc \notin {"idle", "call"})
        => /\ dlPc = "raised" /\ dlRaised = "ValueError"
           /\ exportRequests = 0
           /\ outFile = outFileAtCall

\* C9 witness: the call with no codes raised with an old file in place.
WitC9 ==
    /\ real_train_codes = <<>> /\ dlPc = "raised" /\ dlRaised = "ValueError"
    /\ outFileAtCall = "old" /\ outFile = "old" /\ exportRequests = 0

AllExportsFailed == \A k \in 1..Len(exportLog) : exportLog[k].status # "ok"

\* C14: the export request is sent at most retries times, each failure being
\* followed by a sleep of 2 ** attempt as in the fetcher; the first ok
\* response whose body is written ends the call, which returns out_path with
\* the file holding exactly that body; when every attempt failed at the HTTP
\* level the last error is raised and the file is as it was at the call.
InvC14 ==
    /\ exportRequests <= dlRetries
    /\ exportRequests = Len(exportLog)
    /\ \A k \in 1..Len(dlSleeps) : dlSleeps[k] = Pow(2, k)
    /\ \A k \in 1..Len(exportLog) :
          (exportLog[k].status = "ok" /\ exportLog[k].io = "written")
             => /\ k = Len(exportLog)
                /\ dlPc = "returned"
                /\ outFile = exportLog[k].body
    /\ dlPc = "returned"
          => /\ exportLog # <<>>
             /\ exportLog[Len(exportLog)].status = "ok"
             /\ outFile = exportLog[Len(exportLog)].body
    /\ (dlPc = "raised" /\ exportLog # <<>> /\ AllExportsFailed)
          => /\ dlRaised = ExcOf(exportLog[Len(exportLog)].status)
             /\ Len(dlSleeps) = Len(exportLog)
             /\ outFile = outFileAtCall

\* C14 witness: over an old file, a failed attempt and then an ok response
\* whose body replaced the old content.
WitC14 ==
    /\ dlPc = "returned" /\ outFileAtCall = "old"
    /\ Len(exportLog) = 2
    /\ exportLog[1].status = "500"
    /\ exportLog[2] = [status |-> "ok", body |-> "xlsxA", io |-> "written"]
    /\ outFile = "xlsxA" /\ dlSleeps = <<2>>

\* C14 witness of the failing case: every attempt failed at the HTTP level,
\* the error was raised and the old file is untouched.
DlAllFailedOverOldFile ==
    /\ dlPc = "raised" /\ outFileAtCall = "old" /\ outFile = "old"
    /\ Len(exportLog) = 2 /\ AllExportsFailed /\ dlRaised = "HTTPError500"

(***************************************************************************)
(* Properties of the row filter.                                           *)
(***************************************************************************)
\* The rows the filter selects whose stripped code is c.
RowsWithCode(c) ==
    {k \in 1..Len(rows) : RowSelected(rows[k], day) /\ RowCode(rows[k]) = c}

FirstRowWithCode(c) ==
    CHOOSE k \in RowsWithCode(c) : \A m \in RowsWithCode(c) : k <= m

\* C10: the filter's output holds no code twice and no empty code, holds
\* exactly the stripped non-empty codes of the selected rows, lists them in
\* the order of their first occurrence among those rows, and is the same list
\* when the filter is applied to the same rows again.
InvC10 ==
    (filterPc \in {"once", "twice"})
        => /\ \A a, b \in 1..Len(codes) : a # b => codes[a] # codes[b]
           /\ \A a \in 1..Len(codes) : codes[a] # <<>> /\ RowsWithCode(codes[a]) # {}
           /\ \A k \in 1..Len(rows) :
                 (RowSelected(rows[k], day) /\ RowCode(rows[k]) # <<>>)
                    => \E a \in 1..Len(codes) : codes[a] = RowCode(rows[k])
           /\ \A a, b \in 1..Len(codes) :
                 a < b => FirstRowWithCode(codes[a]) < FirstRowWithCode(codes[b])
           /\ (filterPc = "twice" => codesAgain = codes)

\* C10 witness: T2 first, then T1 twice (once with surrounding blanks), all on
\* the target day, give T2, T1, both times.
WitC10 ==
    /\ filterPc = "twice" /\ day = Day0601 /\ Len(rows) = 3
    /\ RowCode(rows[1]) = CodeT2
    /\ rows[2].real_train_code.val = CodeT1
    /\ rows[3].real_train_code.val = <<" ">> \o CodeT1 \o <<" ">>
    /\ \A k \in 1..3 : RowSelected(rows[k], day)
    /\ codes = <<CodeT2, CodeT1>> /\ codesAgain = codes

(***************************************************************************)
(* Properties of the day-prefix selection.                                 *)
(***************************************************************************)
CodeSet == {codes[a] : a \in 1..Len(codes)}

\* The departure string has at least 10 characters and its first 10 are day.
HasDayPrefix(dep, d) ==
    /\ Len(dep) >= 10
    /\ \A k \in 1..10 : dep[k] = d[k]

\* The codes of the rows whose departure string, as it stands in the row,
\* has the day prefix.
CodesOfRawMatches ==
    {RowCode(rows[k]) : k \in {m \in 1..Len(rows) :
        /\ HasDayPrefix(OrEmpty(rows[m].departure_date), day)
        /\ RowCode(rows[m]) # <<>>}}

\* The same with surrounding whitespace removed from the departure string.
CodesOfStrippedMatches ==
    {RowCode(rows[k]) : k \in {m \in 1..Len(rows) :
        /\ HasDayPrefix(Strip(OrEmpty(rows[m].departure_date)), day)
        /\ RowCode(rows[m]) # <<>>}}

\* C11 as stated: the filter selects exactly the rows whose departure string
\* has at least 10 characters of which the first 10 equal day, so its output
\* holds exactly the codes of those rows.
OrigC11 == (filterPc \in {"once", "twice"}) => CodeSet = CodesOfRawMatches

\* C11 amended: the filter selects exactly the rows whose departure string,
\* with surrounding whitespace removed, has at least 10 characters of which
\* the first 10 equal day; a missing, short or non-matching departure
\* excludes the row and the call still returns.
InvC11 == (filterPc \in {"once", "twice"}) => CodeSet = CodesOfStrippedMatches

\* C11 witness: departures 2024-06-01, 2024-06-01 12:00:00 and 2024-06-02
\* with codes T1, T2, T3 and day 2024-06-01 give T1, T2.
WitC11 ==
    /\ filterPc = "once" /\ day = Day0601 /\ Len(rows) = 3
    /\ rows[1] = [departure_date |-> Str(Day0601), real_train_code |-> Str(CodeT1)]
    /\ rows[2] = [departure_date |-> Str(Day0601 \o Noon), real_train_code |-> Str(CodeT2)]
    /\ rows[3] = [departure_date |-> Str(Day0602), real_train_code |-> Str(CodeT3)]
    /\ codes = <<CodeT1, CodeT2>>

(***************************************************************************)
(* Properties of the filter with a range.                                  *)
(***************************************************************************)
DepartureOf(k) == Strip(OrEmpty(rows[k].departure_date))

\* The two accepted formats, d standing for a digit.
DateTemplate == <<"d", "d", "d", "d", "-", "d", "d", "-", "d", "d">>
DatetimeTemplate == DateTemplate \o <<" ", "d", "d", ":", "d", "d", ":", "d", "d">>

MatchesTemplate(str, template) ==
    /\ Len(str) = Len(template)
    /\ \A k \in 1..Len(template) :
          IF template[k] = "d" THEN str[k] \in {Digits[n] : n \in 1..Len(Digits)}
                               ELSE str[k] = template[k]

HasAcceptedFormat(str) ==
    MatchesTemplate(str, DateTemplate) \/ MatchesTemplate(str, DatetimeTemplate)

BothEndsParse ==
    /\ departureDateStart.present /\ HasAcceptedFormat(departureDateStart.val)
    /\ departureDateEnd.present /\ HasAcceptedFormat(departureDateEnd.val)

RangeStartVal == parse_departure_datetime(OrEmpty(departureDateStart)).val
RangeEndVal == parse_departure_datetime(OrEmpty(departureDateEnd)).val

SelectedWithCode(c) == {k \in selected : RowCode(rows[k]) = c}
FirstSelectedWithCode(c) ==
    CHOOSE k \in SelectedWithCode(c) : \A m \in SelectedWithCode(c) : k <= m

ResponseHasToken ==
    /\ loginResponse.status = "ok"
    /\ loginResponse.body = JObj("data", JObj("token", JStr("tokL")))

EnvAsAtCall == envToken = envAtCall[1] /\ envCookie = envAtCall[2]

\* C15: whenever the login response holds no non-empty token at the
\* configured path, the call does not return normally and publishes no
\* credential to the environment.
InvC15 ==
    (lgEnabled /\ tokenPathSet /\ loginResponse.status # "none" /\ ~ResponseHasToken)
        => /\ lgPc = "raised"
           /\ EnvAsAtCall

\* os.getenv(env_key, data), as deep_inject_env resolves a placeholder
GetenvOr(v, data) == IF v.set THEN v.val ELSE data

\* C16: after a login that got a token and session cookies, both are in the
\* environment, the returned mapping is exactly what was written, and a
\* placeholder resolved afterwards gives the new values; a variable the
\* mapping does not name is as it was at the call; with login_api disabled
\* the call returns the empty mapping, sends no request and leaves the
\* environment alone.
InvC16 ==
    /\ (lgPc = "returned" /\ lgEnabled /\ tokenPathSet /\ ResponseHasToken
        /\ loginResponse.cookies # <<>>)
          => /\ envToken = SetTo("tokL")
             /\ envCookie = SetTo(loginResponse.cookies)
             /\ updates = [token |-> SetTo("tokL"),
                           cookie |-> SetTo(loginResponse.cookies)]
             /\ GetenvOr(envToken, "${AUTH_TOKEN}") = "tokL"
             /\ GetenvOr(envCookie, "${COOKIE}") = loginResponse.cookies
    /\ (lgPc = "returned" /\ lgEnabled)
          => /\ IF updates.token.set THEN envToken = updates.token
                                     ELSE envToken = envAtCall[1]
             /\ IF updates.cookie.set THEN envCookie = updates.cookie
                                      ELSE envCookie = envAtCall[2]
    /\ (lgPc = "returned" /\ ~lgEnabled)
          => /\ updates = NoUpdates
             /\ capLog = <<>> /\ loginRequests = 0
             /\ EnvAsAtCall

\* C16 witness: over AUTH_TOKEN=tokE the login returned AUTH_TOKEN=tokL and
\* the session cookie.
WitC16 ==
    /\ lgPc = "returned" /\ lgEnabled /\ ResponseHasToken
    /\ envAtCall[1] = SetTo("tokE")
    /\ envToken = SetTo("tokL")
    /\ envCookie = SetTo(<< <<"JSESSIONID", "s9">> >>)
    /\ updates.token = SetTo("tokL") /\ updates.cookie.set

\* C16 witness of the disabled case.
LoginDisabledReturned ==
    lgPc = "returned" /\ ~lgEnabled /\ updates = NoUpdates /\ EnvAsAtCall

\* C17: a call that starts while the challenge fetched by an earlier call is
\* younger than the TTL sends no challenge request and uses that challenge.
InvC17 ==
    (cachedImage # 0 /\ cachedAt # -1 /\ callAt - cachedAt < CaptchaTtl)
        => (/\ capLog = <<>>
            /\ (lgPc \in {"recognize", "login", "returned"}
                   => image_bytes = cachedImage))

\* C18: the challenge is requested at most retries + 1 times, with one sleep
\* of retry_sleep before each further attempt; a 409 (or another HTTP error)
\* on an attempt that is not the last is followed by another attempt, the
\* first good answer ends the requests and its challenge is the one
\* returned, and an HTTP error on attempt retries + 1 is raised.
InvC18 ==
    /\ Len(capLog) <= capRetries + 1
    /\ \A k \in 1..Len(capSleeps) : capSleeps[k] = "retry_sleep"
    /\ \A k \in 1..Len(capLog) :
          /\ capLog[k] = "ok"
                => /\ k = Len(capLog)
                   /\ lgPc # "captcha"
                   /\ Len(capSleeps) = k - 1
                   /\ (image_bytes # 0 => image_bytes = challengeCount)
          /\ (capLog[k] \in {"409", "500"} /\ k <= capRetries)
                => /\ Len(capSleeps) >= k
                   /\ (k = Len(capLog) => lgPc = "captcha")
          /\ (capLog[k] \in {"409", "500"} /\ k = capRetries + 1)
                => /\ lgPc = "raised"
                   /\ lgExc = "HTTPError" \o capLog[k]
                   /\ Len(capSleeps) = capRetries

\* C18 witness: with retries 1 the challenge came on the second request,
\* after a 409 and one sleep.
WitC18 ==
    /\ capRetries = 1 /\ capLog = <<"409", "ok">> /\ capSleeps = <<"retry_sleep">>
    /\ lgPc = "recognize" /\ image_bytes = challengeCount

\* C18 witness of the raise: two 409 with retries 1.
CaptchaGaveUp ==
    /\ capRetries = 1 /\ capLog = <<"409", "409">>
    /\ lgPc = "raised" /\ lgExc = "HTTPError409"

\* C19: when the recognition reads nothing and CAPTCHA_VALUE is unset or
\* empty the call fails with an error naming the override variable and the
\* save path and sends no login request; when the recognition reads nothing
\* and CAPTCHA_VALUE is set, that value is the captcha text the login
\* request carries.
InvC19 ==
    /\ (ocrText = "" /\ GetenvOrEmpty(captchaValueEnv) = "")
          => /\ lgPc = "raised" /\ lgExc = "ValueError"
             /\ {"value_env_key", "save_path"} \subseteq lgErrNames
             /\ loginRequests = 0
    /\ (ocrText = "" /\ GetenvOrEmpty(captchaValueEnv) # "")
          => /\ captcha_value = captchaValueEnv.val
             /\ (lgPc # "raised" \/ loginRequests = 1)
             /\ (loginRequests = 1 => loginCaptchaSent = captchaValueEnv.val)

\* C19 witness: nothing read, no override, the call raised before the login
\* request.
WitC19 ==
    /\ ocrText = "" /\ ~captchaValueEnv.set
    /\ lgPc = "raised" /\ lgExc = "ValueError" /\ loginRequests = 0

\* C19 witness of the override: nothing read, CAPTCHA_VALUE=9999 sent.
OverrideSent ==
    /\ ocrText = "" /\ captchaValueEnv = SetTo("9999")
    /\ loginRequests = 1 /\ loginCaptchaSent = "9999"

\* C20: once a challenge has been obtained, the file at the configured save
\* path holds its image, from before the recognition on, whatever the
\* response type.
InvC20 ==
    (savePathSet /\ image_bytes # 0 /\ lgPc \in {"recognize", "login", "returned", "raised"})
        => savedImage = image_bytes

\* With response_type base64_json the image is saved before the recognition.
SavedWhenBase64 ==
    (savePathSet /\ responseType = "base64_json" /\ image_bytes # 0
     /\ lgPc \in {"recognize", "login", "returned", "raised"})
        => savedImage = image_bytes

(***************************************************************************)
(* Properties of the cookie and header helpers.                            *)
(***************************************************************************)
\* A segment that is an AUTH_TOKEN pair with a value.
IsTokenPair(seg) ==
    seg.eq /\ Strip(seg.key) = AuthTokenKey /\ Strip(seg.value) # <<>>

TokenPairs == {k \in 1..Len(cookieSegments) : IsTokenPair(cookieSegments[k])}

FirstTokenPair == cookieSegments[CHOOSE k \in TokenPairs : \A j \in TokenPairs : k <= j]

TokenAvailableAtCall == tokenAtCall.set /\ tokenAtCall.val # <<>>

\* C21: after the sync, if the header held an AUTH_TOKEN pair with a value
\* and the token variable was unset or empty, the variable holds the value of
\* that pair; if the variable held a token it is unchanged; if the header is
\* empty or holds no such pair the variable is unchanged.
InvC21 ==
    syncPc \in {"returned", "returned2"} =>
        /\ (~TokenAvailableAtCall /\ TokenPairs # {})
              => tokenEnv = SetTo(Strip(FirstTokenPair.value))
        /\ TokenAvailableAtCall => tokenEnv = tokenAtCall
        /\ TokenPairs = {} => tokenEnv = tokenAtCall

\* C21 witness: "A=1; AUTH_TOKEN=t" with AUTH_TOKEN unset gave AUTH_TOKEN=t.
WitC21 ==
    /\ syncPc = "returned"
    /\ cookieSegments = <<Seg(<<"A">>, <<"1">>), Seg(AuthTokenKey, <<"t">>)>>
    /\ tokenAtCall = Unset(<<>>)
    /\ tokenEnv = SetTo(<<"t">>)

\* C21 witness of the configured token: AUTH_TOKEN=e stays over "AUTH_TOKEN=t".
ConfiguredTokenKept ==
    /\ syncPc = "returned"
    /\ cookieSegments = <<Seg(AuthTokenKey, <<"t">>)>>
    /\ tokenAtCall = SetTo(<<"e">>)
    /\ tokenEnv = SetTo(<<"e">>)


\* The explicit auth_token header at the call, a placeholder counting as
\* absent.
ExplicitToken ==
    IF nzAtCall.auth_token.present /\ ~IsPlaceholder(nzAtCall.auth_token.val)
       THEN nzAtCall.auth_token.val ELSE <<>>

AuthSegs ==
    {k \in 1..Len(nzSegments) :
        nzSegments[k].eq /\ Strip(nzSegments[k].key) = AuthTokenKey}

\* The value of the AUTH_TOKEN pair of the cookie header (of the last one
\* when the header repeats the key).
CookiePairToken ==
    IF nzAtCall.cookie.present /\ AuthSegs # {}
       THEN Strip(nzSegments[CHOOSE k \in AuthSegs : \A j \in AuthSegs : j <= k].value)
       ELSE <<>>

EnvToken == IF nzEnv.set THEN nzEnv.val ELSE <<>>

\* The first non-empty of the three sources, empty when there is none.
FirstNonEmptyToken ==
    IF ExplicitToken # <<>> THEN ExplicitToken
    ELSE IF CookiePairToken # <<>> THEN CookiePairToken
    ELSE EnvToken

NormReturned == nzPc \in {"returned", "returned2"}

\* C22 as stated: the call returns the first non-empty of explicit header,
\* cookie pair and environment token, the header then holds that token, and
\* when there is no token the headers hold no auth_token entry.
OrigC22 ==
    NormReturned =>
        IF FirstNonEmptyToken # <<>>
           THEN /\ nzToken = Str(FirstNonEmptyToken)
                /\ nzHeaders.auth_token = Str(FirstNonEmptyToken)
           ELSE /\ ~TruthyStr(nzToken)
                /\ nzHeaders.auth_token = Missing

\* C22: the call returns the first non-empty of explicit header, cookie pair
\* and environment token, the header then holds that token, and when there is
\* no token the headers hold no auth_token entry other than an empty one the
\* caller passed; the cookie header is as it was.
InvC22 ==
    NormReturned =>
        /\ IF FirstNonEmptyToken # <<>>
              THEN /\ nzToken = Str(FirstNonEmptyToken)
                   /\ nzHeaders.auth_token = Str(FirstNonEmptyToken)
              ELSE /\ ~TruthyStr(nzToken)
                   /\ \/ nzHeaders.auth_token = Missing
                      \/ (nzHeaders.auth_token = Str(<<>>)
                          /\ nzAtCall.auth_token = Str(<<>>))
        /\ nzHeaders.cookie = nzAtCall.cookie

\* C22 witness: a placeholder header and the cookie "AUTH_TOKEN=t; A=1" with
\* AUTH_TOKEN=e in the environment gave t, in the header too.
WitC22 ==
    /\ nzPc = "returned"
    /\ nzAtCall.auth_token = Str(<<"$", "{", "A", "}">>)
    /\ nzSegments = <<Seg(AuthTokenKey, <<"t">>), Seg(<<"A">>, <<"1">>)>>
    /\ nzEnv = SetTo(<<"e">>)
    /\ nzToken = Str(<<"t">>)
    /\ nzHeaders.auth_token = Str(<<"t">>)

\* C22 witness of the removed placeholder: no token anywhere, the
\* placeholder entry is gone.
PlaceholderRemoved ==
    /\ nzPc = "returned"
    /\ nzAtCall.auth_token = Str(<<"$", "{", "A", "}">>)
    /\ ~TruthyStr(nzToken)
    /\ nzHeaders.auth_token = Missing


(***************************************************************************)
(* Properties of deep_inject_env.                                          *)
(***************************************************************************)
IsContainer(v) == v.kind \in {"list", "tuple", "dict"}

ChildAt(v, n) == IF v.kind = "dict" THEN v.items[n][2] ELSE v.items[n]

\* The positions of a value: the empty path for the value itself, and n
\* followed by a position of its n-th item.
RECURSIVE PathsOf(_)
PathsOf(v) ==
    IF ~IsContainer(v) THEN {<<>>}
    ELSE {<<>>} \cup UNION {{<<n>> \o p : p \in PathsOf(ChildAt(v, n))} :
                               n \in 1..Len(v.items)}

RECURSIVE ValueAt(_, _)
ValueAt(v, p) == IF p = <<>> THEN v ELSE ValueAt(ChildAt(v, Head(p)), Tail(p))

DictKeys(v) == [n \in 1..Len(v.items) |-> v.items[n][1]]

\* A string that is exactly ${NAME}, NAME a name without "$", "{" or "}".
ExactPlaceholder(str) ==
    /\ Len(str) >= 4
    /\ str[1] = "$" /\ str[2] = "{" /\ str[Len(str)] = "}"
    /\ \A k \in 3..(Len(str) - 1) : str[k] \notin {"$", "{", "}"}

NameOf(str) == SubSeq(str, 3, Len(str) - 1)

EnvSet(name) == \E n \in 1..Len(injEnviron) : injEnviron[n][1] = name

EnvValue(name) ==
    (CHOOSE pr \in {injEnviron[n] : n \in 1..Len(injEnviron)} : pr[1] = name)[2]

\* The value returned for the item at one position of the object passed.
InjectedRight(a, b) ==
    IF IsContainer(a)
       THEN /\ b.kind = a.kind
            /\ Len(b.items) = Len(a.items)
            /\ (a.kind = "dict" => DictKeys(b) = DictKeys(a))
       ELSE IF a.kind = "str" /\ ExactPlaceholder(a.val) /\ EnvSet(NameOf(a.val))
               THEN b = VStr(EnvValue(NameOf(a.val)))
               ELSE b = a

\* C23: the value returned has the positions of the object passed; at each
\* position a list is a list, a tuple a tuple, a dict a dict with the same
\* keys in the same order and all of the same length; a string that is
\* exactly ${NAME} is the value of NAME if NAME is set and itself if not;
\* every other string, int and None is itself; the object passed is as it
\* was.
InvC23 ==
    injPc = "returned" =>
        /\ PathsOf(injOut) = PathsOf(injAtCall)
        /\ \A p \in PathsOf(injAtCall) :
              InjectedRight(ValueAt(injAtCall, p), ValueAt(injOut, p))
        /\ injData = injAtCall

\* C23 witness: {"${A}": 1, "k": ("a${A}", "${A}")} with A=x gave
\* {"${A}": 1, "k": ("a${A}", "x")}.
WitC23 ==
    /\ injPc = "returned"
    /\ injEnviron = << <<(<<"A">>), <<"x">> >> >>
    /\ injAtCall = VDict(<< <<PhA, VInt(<<"1">>)>>,
                            <<(<<"k">>),
                              VTuple(<<VStr(<<"a">> \o PhA), VStr(PhA)>>)>> >>)
    /\ injOut = VDict(<< <<PhA, VInt(<<"1">>)>>,
                         <<(<<"k">>),
                           VTuple(<<VStr(<<"a">> \o PhA), VStr(<<"x">>)>>)>> >>)

\* C23 witness of the unset variable: ["${A}", "${B}"] with A=x gave
\* ["x", "${B}"].
UnsetLeftAsPlaceholder ==
    /\ injPc = "returned"
    /\ injEnviron = << <<(<<"A">>), <<"x">> >> >>
    /\ injAtCall = VList(<<VStr(PhA), VStr(PhB)>>)
    /\ injOut = VList(<<VStr(<<"x">>), VStr(PhB)>>)


(***************************************************************************)
(* Properties of build_cookie_header.                                      *)
(***************************************************************************)
\* The pairs read back from the header string: the parts between ";", each
\* a key, "=" and a value that may be empty.
PairOfPart(part) == <<part[1], IF Len(part) >= 3 THEN part[3] ELSE "">>

HeaderPairs(header) ==
    LET parts == Split(header, ";")
        texts == SelectSeq([n \in 1..Len(parts) |-> LStrip(parts[n])],
                           LAMBDA part : part # <<>>)
    IN  [n \in 1..Len(texts) |-> PairOfPart(texts[n])]

EmittedPairs == HeaderPairs(ckHeader)

Occurrences(k) == Cardinality({n \in 1..Len(EmittedPairs) : EmittedPairs[n][1] = k})

KeysOf(pairs) == [n \in 1..Len(pairs) |-> pairs[n][1]]

ElemsOf(seq) == {seq[n] : n \in 1..Len(seq)}

CookieValueOf(k) == PairValue(ckPairs, k)

\* The preferred keys that cookie_pairs holds (a value of None counting as
\* absent), in the order of preferred_keys.
PreferredPresent == SelectSeq(ckPreferred, LAMBDA k : CookieValueOf(k) # NoneValue)

\* The preferred keys whose cookie has a non-empty value.
PreferredNonEmpty == SelectSeq(ckPreferred, LAMBDA k : Truthy(CookieValueOf(k)))

\* The cookies that are not None and not among the keys put first.
RestAfter(firstKeys) ==
    SelectSeq(ckPairs, LAMBDA pr : pr[1] \notin ElemsOf(firstKeys) /\ pr[2] # NoneValue)

NoKeyTwice(keys) == \A a, b \in 1..Len(keys) : keys[a] = keys[b] => a = b

\* C24 as stated: the header holds the preferred keys that are present, in
\* the order of preferred_keys, then the other cookies in insertion order;
\* every cookie with a non-empty value occurs once and no cookie twice.
OrigC24 ==
    ckPc = "returned" =>
        /\ KeysOf(EmittedPairs) = PreferredPresent \o KeysOf(RestAfter(PreferredPresent))
        /\ \A n \in 1..Len(ckPairs) : Truthy(ckPairs[n][2]) => Occurrences(ckPairs[n][1]) = 1
        /\ \A k \in CookieNames : Occurrences(k) <= 1

\* C24: the header holds the preferred keys whose value is not empty, in the
\* order of preferred_keys, then every other cookie whose value is not None
\* in insertion order, each as key=value and joined by "; "; every cookie
\* with a non-empty value occurs in it, and when preferred_keys names no key
\* twice no cookie occurs twice.
InvC24 ==
    ckPc = "returned" =>
        /\ KeysOf(EmittedPairs) = PreferredNonEmpty \o KeysOf(RestAfter(PreferredNonEmpty))
        /\ \A n \in 1..Len(EmittedPairs) :
              EmittedPairs[n][2] = CookieValueOf(EmittedPairs[n][1])
        /\ ckHeader = CookieHeaderText(EmittedPairs)
        /\ \A n \in 1..Len(ckPairs) : Truthy(ckPairs[n][2]) => Occurrences(ckPairs[n][1]) >= 1
        /\ NoKeyTwice(ckPreferred) => \A k \in CookieNames : Occurrences(k) <= 1

\* C24 witness: {"B": "1", "A": "1", "C": "1"} with preferred ("A", "C") gave
\* "A=1; C=1; B=1".
WitC24 ==
    /\ ckPc = "returned"
    /\ ckPairs = << <<"B", "1">>, <<"A", "1">>, <<"C", "1">> >>
    /\ ckPreferred = <<"A", "C">>
    /\ ckHeader = <<"A", "=", "1", ";", " ", "C", "=", "1", ";", " ", "B", "=", "1">>

\* A preferred key with an empty value is written after the others:
\* {"B": "1", "A": ""} with preferred ("A") gave "B=1; A=".
EmptyPreferredComesLater ==
    /\ ckPc = "returned"
    /\ ckPairs = << <<"B", "1">>, <<"A", "">> >>
    /\ ckPreferred = <<"A">>
    /\ ckHeader = <<"B", "=", "1", ";", " ", "A", "=">>


(***************************************************************************)
(* Properties of split_excel_by_booker.                                    *)
(***************************************************************************)
\* The rows of the sheet that pass the consigner filter and the exclusion.
RowRemains(row) ==
    /\ (spConsigner \in {Missing, Str(<<>>)} \/ row.consigner = spConsigner)
    /\ (spExclude = Missing \/ row.booker # spExclude)

RemainingRows == {n \in 1..Len(spRows) : RowRemains(spRows[n])}

\* The partition values that are not missing, empty or blank.
NamedBookers == {BookerAB, BookerA_B, BookerB, BookerC, BookerD}

RemainingBookers == {spRows[n].booker : n \in RemainingRows} \cap NamedBookers

RowsOfBooker(v) == {n \in RemainingRows : spRows[n].booker = v}

\* template(sanitize(v)) for the values of the sheet: A/B gives A_B.xlsx.
ExpectedFile(v) ==
    IF v = BookerAB THEN <<"A", "_", "B", ".xlsx">> ELSE v.val \o <<".xlsx">>

IdsOf(rs) == {rs[n].id : n \in 1..Len(rs)}

FileRows(name) == IF DictGet(spFiles, name).present THEN IdsOf(DictGet(spFiles, name).val) ELSE {}

OutputKeys == {spOutputs[n][1] : n \in 1..Len(spOutputs)}

FileNames == {spFiles[n][1] : n \in 1..Len(spFiles)}

\* C25: after the call, every named partition value v that remains has an
\* entry keyed v whose path is template(sanitize(v)), the file is there and
\* holds exactly the rows of group v; there is no other entry and no file
\* holds a row that the consigner filter removed.
OrigC25 ==
    spPc = "returned" =>
        /\ \A v \in RemainingBookers :
              /\ DictGet(spOutputs, v.val) = Str(ExpectedFile(v))
              /\ ExpectedFile(v) \in FileNames
              /\ FileRows(ExpectedFile(v)) = RowsOfBooker(v)
        /\ OutputKeys = {v.val : v \in RemainingBookers}
        /\ \A name \in FileNames : FileRows(name) \subseteq RemainingRows

\* No two partition values that remain give the same file name.
NoNameCollision ==
    \A v, w \in RemainingBookers : ExpectedFile(v) = ExpectedFile(w) => v = w

\* The outputs are as C25 says whenever no two partition values give the
\* same file name.
SplitRightUnlessCollision == NoNameCollision => OrigC25

\* Two partition values were written to one file: A/B and A_B both map to
\* A_B.xlsx, which holds the row of A_B only.
CollisionLosesRows ==
    /\ spPc = "returned"
    /\ {BookerAB, BookerA_B} \subseteq RemainingBookers
    /\ DictGet(spOutputs, BookerAB.val) = DictGet(spOutputs, BookerA_B.val)
    /\ FileRows(ExpectedFile(BookerAB)) = RowsOfBooker(BookerA_B)


\* Every write made so far, as the ids of the rows written.
RowsEverWritten == UNION {IdsOf(spWrites[n][2]) : n \in 1..Len(spWrites)}

\* A group of rows was written for partition value v.
WrittenFor(v) ==
    \E n \in 1..Len(spWrites) :
        spWrites[n][1] = ExpectedFile(v) /\ IdsOf(spWrites[n][2]) = RowsOfBooker(v)

\* C26: with an exclusion, no row of the excluded partition value is ever
\* written, the result has no key for it and there is no file of its name;
\* after the call every other named partition value that remains has its
\* entry and its file, written with its rows.
InvC26 ==
    spExclude # Missing =>
        /\ \A n \in RowsEverWritten : spRows[n].booker # spExclude
        /\ spExclude.val \notin OutputKeys
        /\ ExpectedFile(spExclude) \notin FileNames
        /\ spPc = "returned" =>
              \A v \in RemainingBookers :
                  /\ v # spExclude
                  /\ v.val \in OutputKeys
                  /\ ExpectedFile(v) \in FileNames
                  /\ WrittenFor(v)

\* C26 witness: rows of C and B with exclude B gave the entry and the file
\* of C alone.
WitC26 ==
    /\ spPc = "returned"
    /\ spExclude = BookerB
    /\ Len(spRows) = 2 /\ spRows[1].booker = BookerC /\ spRows[2].booker = BookerB
    /\ OutputKeys = {BookerC.val}
    /\ FileNames = {<<"C", ".xlsx">>}

IsBlankCell(cell) == cell = NaN \/ cell = BookerBlank \/ cell = Str(<<>>)

\* C27: no row whose partition cell is missing, empty or blank is ever
\* written, no key and no file name stands for such a cell, the call does
\* not raise over it, and after the call every named partition value that
\* remains has its entry and its file.
InvC27 ==
    /\ \A n \in RowsEverWritten : ~IsBlankCell(spRows[n].booker)
    /\ \A k \in OutputKeys : Strip(k) # <<>>
    /\ <<".xlsx">> \notin FileNames /\ <<" ", ".xlsx">> \notin FileNames
    /\ (spInputExists /\ ~MissingColumn(spColumns, spConsigner)) => spPc # "raised"
    /\ spPc = "returned" =>
          \A v \in RemainingBookers : v.val \in OutputKeys /\ WrittenFor(v)

\* C27 witness: rows with an empty cell, a blank cell and C gave the entry
\* of C alone.
WitC27 ==
    /\ spPc = "returned"
    /\ {NaN, BookerBlank, BookerC} = {spRows[n].booker : n \in RemainingRows}
    /\ OutputKeys = {BookerC.val}
    /\ FileNames = {<<"C", ".xlsx">>}

SplitStarted == spPc # "call"

\* C28: a call on an input path that does not exist raises the missing-file
\* error; on a sheet without the consigner column with a consigner value
\* given, or without the partition column, it raises the missing-column
\* error; a call that raised has written nothing.
InvC28 ==
    /\ (SplitStarted /\ ~spInputExists)
          => spPc = "raised" /\ spExc = "FileNotFoundError"
    /\ (SplitStarted /\ spInputExists /\ spConsigner = ConsignerT /\ ~spColumns.consigner)
          => spPc = "raised" /\ spExc = "KeyError"
    /\ (SplitStarted /\ spInputExists /\ ~spColumns.booker)
          => spPc = "raised" /\ spExc = "KeyError"
    /\ spPc = "raised" => spWrites = <<>> /\ spFiles = <<>> /\ spOutputs = <<>>

\* C28 witness: a consigner value with no consigner column raised the
\* missing-column error.
WitC28 ==
    /\ spPc = "raised" /\ spExc = "KeyError"
    /\ spInputExists /\ spConsigner = ConsignerT
    /\ ~spColumns.consigner /\ spColumns.booker
    /\ spWrites = <<>>

\* C28 witness of the missing file.
MissingInputRaised ==
    spPc = "raised" /\ spExc = "FileNotFoundError" /\ ~spInputExists /\ spWrites = <<>>


(***************************************************************************)
(* C29: export_by_direction, run twice.                                    *)
(***************************************************************************)
\* A file as pandas reads it back: there or not, and its rows.
ReadFile(file) == [exists |-> file.exists, rows |-> ReadExcel(file.sheet)]

NoTwoEqualOnKeys(frame) ==
    \A k1, k2 \in 1..Len(frame) : frame[k1].key = frame[k2].key => k1 = k2

SameAsAfterFirstRun ==
    \A p \in ExportPaths : ReadFile(exFiles[p]) = ReadFile(exFirst[p])

EmptyGroupsLeftFilesAlone ==
    \A k \in 1..Len(exGrouped) :
        exGrouped[k][2] = <<>> =>
            exFiles[ExportPath(exGrouped[k][1])] = exAtCall[ExportPath(exGrouped[k][1])]

\* C29: after export_by_direction has run twice with the same grouped
\* records every output file reads back with the rows it had after the
\* first run, no file ever reads back with two rows equal on the dedup
\* key, and a group with no records creates or changes no file.
OrigC29 ==
    /\ (exPc = "returned" /\ exRuns >= 2) => SameAsAfterFirstRun
    /\ \A p \in ExportPaths : NoTwoEqualOnKeys(ReadFile(exFiles[p]).rows)
    /\ EmptyGroupsLeftFilesAlone

NaKeyInRecords ==
    \E k \in 1..Len(exGrouped) : \E n \in 1..Len(exGrouped[k][2]) :
        exGrouped[k][2][n].key.val \in NaStrings

\* The merge is idempotent and free of duplicates when no record's key is a
\* text that read_excel turns into NaN.
ExportRightUnlessNaKey == NaKeyInRecords \/ OrigC29

\* Two runs with records of different keys, onto a file that was there.
ExportMergedTwice ==
    /\ exPc = "returned" /\ exRuns = 2
    /\ ~NaKeyInRecords
    /\ Len(exGrouped[1][2]) = 2
    /\ exGrouped[1][2][1].key # exGrouped[1][2][2].key
    /\ Len(exFiles[ExportPath("in")].sheet) = 3
    /\ exGrouped[2][2] = <<>> /\ exFiles[ExportPath("out")].exists

\* The second run added the row of key "NA" once more.
NaKeyRowTwice ==
    /\ exPc = "returned" /\ exRuns = 2
    /\ exGrouped[1][2] = <<ExportRow(<<"N", "A">>, <<"1">>)>>
    /\ Len(exFirst[ExportPath("in")].sheet) = 1
    /\ Len(exFiles[ExportPath("in")].sheet) = 2


(***************************************************************************)
(* C30: the order of main's stages and what an error leaves undone.        *)
(***************************************************************************)
StageOrder ==
    <<IF loginEnabled THEN "login" ELSE "sync",
      "validate", "fetch", "filter", "download", "split">>

\* The stages that have been entered when main is at a position.
StagesEntered(at) ==
    CASE at = "login" -> 0
      [] at = "validate" -> 1
      [] at = "fetch" -> 2
      [] at = "filter" -> 3
      [] at = "download" -> 4
      [] at = "split" -> 5
      [] at = "done" -> 6

\* The errors a stage raises.
ErrorsOfStage(stage) ==
    CASE stage = "login" -> {"LoginError", "RuntimeError"}
      [] stage = "validate" -> {"ConfigError"}
      [] stage = "fetch" -> {"FetchError"}
      [] stage = "download" -> {"ValueError", "DownloadError"}
      [] stage = "split" -> {"SplitError"}
      [] OTHER -> {}

\* C30: the stages of a run of main are entered in the order login or
\* credential sync, validation, fetch, filter, download, split, each one
\* only when all before it returned; once a stage has raised the run is over
\* with that error, no later stage has been entered, and nothing of a later
\* stage (listing request, export request, export file, split file) exists.
\* When the filter selected no code the download raises ValueError before
\* any export request and any file, and the split is not entered.
InvC30 ==
    /\ stageLog = SubSeq(StageOrder, 1, Len(stageLog))
    /\ mainPc # "raised"
          => (Len(stageLog) = StagesEntered(mainPc) /\ mainExc = NoExc)
    /\ mainPc = "raised"
          => (stageLog # <<>> /\ mainExc \in ErrorsOfStage(stageLog[Len(stageLog)]))
    /\ ~Called("fetch") => mainListRequests = 0
    /\ ~Called("download") => (mainExportRequests = 0 /\ ~exportWritten)
    /\ ~Called("split") => ~splitWritten
    /\ (Called("download") /\ mainCodes = <<>>)
          => /\ mainPc = "raised" /\ mainExc = "ValueError"
             /\ mainExportRequests = 0 /\ ~exportWritten
             /\ ~Called("split") /\ ~splitWritten

\* C30 witness: login, validation, fetch and filter returned, the filter
\* selected nothing, and the run ended in the download's ValueError.
WitC30 ==
    /\ loginEnabled
    /\ stageLog = <<"login", "validate", "fetch", "filter", "download">>
    /\ mainRows # <<>> /\ mainCodes = <<>>
    /\ mainPc = "raised" /\ mainExc = "ValueError"
    /\ mainListRequests > 0 /\ mainExportRequests = 0
    /\ ~exportWritten /\ ~splitWritten

\* A run that went through every stage.
RunCompleted ==
    /\ mainPc = "done"
    /\ stageLog = <<"sync", "validate", "fetch", "filter", "download", "split">>
    /\ exportWritten /\ splitWritten

\* A run that ended in the fetch.
FetchErrorEndedRun ==
    /\ mainPc = "raised" /\ mainExc = "FetchError"
    /\ stageLog = <<"sync", "validate", "fetch">>
    /\ mainExportRequests = 0 /\ ~exportWritten /\ ~splitWritten


(***************************************************************************)
(* C31: the sleeps of the retry loop.  CONFIG's retry_backoff_base is 1.5, *)
(* kept as the fraction RetryBackoffNum / RetryBackoffDen.                 *)
(***************************************************************************)
RetryBackoffNum == 3

RetryBackoffDen == 2

\* seconds = retry_backoff_base ** k
IsConfiguredBackoff(seconds, k) ==
    seconds * Pow(RetryBackoffDen, k) = Pow(RetryBackoffNum, k)

\* Without the auth-link flow every attempt that does not return fails, so
\* the k-th sleep of a request is the one after its k-th failed attempt.
SleepsAreConfiguredPowers ==
    ~flowEnabled => \A k \in 1..Len(sleeps) : IsConfiguredBackoff(sleeps[k], k)

\* A request that used up its attempts slept between them only.
SleepsOnlyBetweenAttempts ==
    (pc = "raised" /\ ~flowEnabled /\ retries >= 1) => Len(sleeps) = retries - 1

\* C31: the sleep after the k-th failed attempt of a request is
\* retry_backoff_base ** k seconds, and a request that fails retries times
\* has slept retries - 1 times when the error is raised.
OrigC31 == SleepsAreConfiguredPowers /\ SleepsOnlyBetweenAttempts

\* What the code does: 2 ** k seconds after the k-th failed attempt, the
\* last one included.
SleepsArePowersOfTwo ==
    /\ ~flowEnabled => \A k \in 1..Len(sleeps) : sleeps[k] = Pow(2, k)
    /\ (pc = "raised" /\ ~flowEnabled) => Len(sleeps) = retries

\* Two attempts failed and the error was raised after two sleeps.
SleptAfterLastAttempt ==
    /\ pc = "raised" /\ ~flowEnabled /\ retries = 2
    /\ sleeps = <<2, 4>>


(***************************************************************************)
(* C32: a 401 with the auth-link flow absent or disabled.                  *)
(***************************************************************************)
\* C32: with auth_link_flow absent or not enabled no run of the flow and no
\* transfer request ever happens; a 401 is a failed attempt like any other
\* (its HTTP error is recorded, the attempt is used up, the backoff sleep is
\* taken); and a request answered 401 on each of its retries attempts ends
\* in that HTTP error being raised.
PropC32 ==
    /\ [](~flowEnabled => (reauthStarts = 0 /\ transferRequests = 0 /\ ~used))
    /\ [][(~flowEnabled /\ numRequests' = numRequests + 1 /\ lastStatus' = "401")
            => /\ last_exc' = "HTTPError401"
               /\ attempt' = attempt + 1
               /\ Len(sleeps') = Len(sleeps) + 1
               /\ pc' = pc]_vars
    /\ [][(~flowEnabled /\ InLoop /\ only401 /\ pageRequests = retries /\ retries >= 1)
            => (pc' = "raised" /\ raisedExc' = "HTTPError401")]_vars
    /\ []((~flowEnabled /\ only401 /\ pageRequests >= 1 /\ pc \in {"returned", "raised"})
            => (pc = "raised" /\ raisedExc = "HTTPError401" /\ pageRequests = retries))

\* C32 witness: flow disabled, two attempts of the second page both answered
\* 401, the HTTP error raised, no re-authentication request made.
WitC32 ==
    /\ ~flowEnabled /\ retries = 2
    /\ Len(reqLog) = 2 /\ pageRequests = 2 /\ only401
    /\ pc = "raised" /\ raisedExc = "HTTPError401"
    /\ reauthStarts = 0 /\ transferRequests = 0


(***************************************************************************)
(* C33: termination of the fetcher and the number of listing requests.     *)
(***************************************************************************)
FetchTerminated == pc \in {"returned", "raised"}

\* total is 0 until the first response is in.
RequestBound == retries * Max(1, CeilDiv(total, page_size))

\* C33: whatever the server answers, the run ends, by returning or by
\* raising, and at no time has it issued more than
\* retries * max(1, ceil(total / page_size)) listing requests.
PropC33 ==
    /\ <>FetchTerminated
    /\ [](numRequests <= RequestBound)

\* C33 witness: two pages, each asked for twice, the run returned with the
\* bound of 2 * 2 requests used up.
WitC33 ==
    /\ pc = "returned" /\ retries = 2
    /\ total = 3 /\ page_size = 2
    /\ numRequests = 4 /\ RequestBound = 4

\* No attempt at all: the run raises without a request.
NoAttemptRaises ==
    /\ retries = 0 /\ pc = "raised" /\ raisedExc = "TypeError"
    /\ numRequests = 0


(***************************************************************************)
(* C34: two partition values and their files.                              *)
(***************************************************************************)
\* The partition values that have an entry in outputs.
WrittenBookers == {v \in RemainingBookers : v.val \in OutputKeys}

PathOf(v) == DictGet(spOutputs, v.val).val

\* C34: any two different partition values written by one call have
\* different paths in the result, and the file of each holds its own rows,
\* not overwritten by the other's.
OrigC34 ==
    \A v, w \in WrittenBookers :
        v # w => /\ PathOf(v) # PathOf(w)
                 /\ FileRows(PathOf(v)) = RowsOfBooker(v)
                 /\ FileRows(PathOf(w)) = RowsOfBooker(w)

\* Values that differ in more than a sanitized character keep their files
\* apart.
FilesApartUnlessCollision == NoNameCollision => OrigC34

\* A/B and A_B were both written, to the same path.
SharedOutputFile ==
    /\ spPc = "returned"
    /\ {BookerAB, BookerA_B} \subseteq WrittenBookers
    /\ PathOf(BookerAB) = PathOf(BookerA_B)
    /\ RowsOfBooker(BookerAB) # {}
    /\ RowsOfBooker(BookerAB) \cap FileRows(PathOf(BookerAB)) = {}

\* B and C were both written, each to its own file.
SeparateOutputFiles ==
    /\ spPc = "returned"
    /\ {BookerB, BookerC} \subseteq WrittenBookers
    /\ PathOf(BookerB) # PathOf(BookerC)
    /\ FileRows(PathOf(BookerB)) = RowsOfBooker(BookerB)


(***************************************************************************)
(* C35: every remaining row is in the file of its partition value.         *)
(***************************************************************************)
\* The rows that remain after the filters and have a partition value.
NamedRows == {n \in RemainingRows : spRows[n].booker \in NamedBookers}

FilesHolding(n) == {name \in FileNames : n \in FileRows(name)}

\* C35: after the call every remaining row with a partition value is in
\* the file of its partition value and in no other file, and no file holds
\* a row that the consigner filter or the exclusion removed.
OrigC35 ==
    spPc = "returned" =>
        /\ \A n \in NamedRows : FilesHolding(n) = {ExpectedFile(spRows[n].booker)}
        /\ \A name \in FileNames : FileRows(name) \subseteq RemainingRows

\* The partition is complete whenever no two values give the same file name.
CompleteUnlessCollision == NoNameCollision => OrigC35

\* No row is ever in two files, and none that was removed is in a file.
NoRowTwiceNoneRemoved ==
    /\ \A n \in 1..Len(spRows) : Cardinality(FilesHolding(n)) <= 1
    /\ \A name \in FileNames : FileRows(name) \subseteq NamedRows

\* The row of A/B is in no file after the call: the file of its name holds
\* the row of A_B.
RowInNoFile ==
    /\ spPc = "returned"
    /\ \E n \in NamedRows : spRows[n].booker = BookerAB /\ FilesHolding(n) = {}


(***************************************************************************)
(* C36: what the fetcher leaves alone, and what its requests carry.        *)
(***************************************************************************)
\* A json body without its page-number entry.
WithoutPageNumber(body) ==
    SelectSeq(body.items, LAMBDA e : e[1] # PageNumberField)

CallerObjectsUntouched == \A r \in CallerRefs : frHeap[r] = frAtCall[r]

\* C36: at every point of a run, returned or raised, the caller's headers,
\* payload_template and auth_link_flow are as they were at the call and so
\* is the environment; every listing request carried the headers of the
\* first one, which are the caller's headers resolved at the call, and the
\* json body of the first one but for the page-number entry.
InvC36 ==
    /\ CallerObjectsUntouched
    /\ frEnviron = frEnvAtCall
    /\ \A k \in 1..Len(frSent) :
          /\ frSent[k].headers = frSent[1].headers
          /\ frSent[k].headers = DeepInjectEnv(frAtCall["headers"], frEnvAtCall)
          /\ WithoutPageNumber(frSent[k].json) = WithoutPageNumber(frSent[1].json)
          /\ WithoutPageNumber(frSent[k].json)
                = WithoutPageNumber(DeepInjectEnv(frAtCall["payload_template"], frEnvAtCall))

\* C36 witness: placeholders in the headers and in the payload were
\* resolved, the auth-link flow ran, two pages were asked for in three
\* requests and the run returned.
WitC36 ==
    /\ frPc = "returned"
    /\ Len(frSent) = 3 /\ frPage = 1 /\ frUsed
    /\ frSent[1].json # frSent[3].json
    /\ frSent[1].headers # frAtCall["headers"]
    /\ WithoutPageNumber(frSent[1].json) # WithoutPageNumber(frAtCall["payload_template"])
    /\ frHeap["transfer_headers"] # VNone

\* A run that raised, the caller's placeholders still in place.
FrameRaisedUntouched ==
    /\ frPc = "raised" /\ Len(frSent) = 2
    /\ frSent[1].headers # frAtCall["headers"]
    /\ CallerObjectsUntouched

====
